---- MODULE Spec2Model ----
(***************************************************************************)
(* A model of the GDScript code smell analyzer: the code model (CodeLine,  *)
(* Method, Class, GDScriptProject), the detectors' decisions, the          *)
(* configuration (AnalysisConfig) and the orchestrator                     *)
(* (AnalyzeProjectUseCase).                                                *)
(*                                                                         *)
(* Encodings.  A source line is a sequence of one-character strings, so    *)
(* that trim and substring search are computed and not assumed.  A ratio   *)
(* (similarity, density, a ratio threshold) is a record [num, den] with    *)
(* den > 0, compared by cross multiplication; with the small integers used *)
(* here the IEEE division of the code orders values exactly as the         *)
(* rationals do.  JavaScript's null is the record null, undefined (an      *)
(* absent key) is a key outside the DOMAIN of a mapping.                   *)
(***************************************************************************)
EXTENDS Integers, Sequences, FiniteSets, TLC

VARIABLES
  pc,        \* the orchestrator's position in execute / analyzeProject
  config,    \* the AnalysisConfig in use (null before it is loaded)
  project,   \* the GDScriptProject (null before it is built)
  results,   \* the results list of analyzeProject
  cursor,    \* [scope, det]: the loop indices of analyzeProject
  invoked,   \* the detector invocations made so far, in order
  previous,  \* the result list of the previous run over the same model
  args,      \* the input of the function under study
  out        \* its output (null before it is applied)

vars == <<pc, config, project, results, cursor, invoked, previous, args, out>>

runVars == <<pc, config, project, results, cursor, invoked, previous>>

null == [isNull |-> TRUE]

\* ------------------------------------------------------------------ bounds

MaxLen == 3

MaxBody == 2

\* ------------------------------------------------------------ arithmetic

Max(a, b) == IF a >= b THEN a ELSE b

Rat(n, d) == [num |-> n, den |-> d]

RatEq(p, q) == p.num * q.den = q.num * p.den

RatGeq(p, q) == p.num * q.den >= q.num * p.den

RatGt(p, q) == p.num * q.den > q.num * p.den

RatLt(p, q) == p.num * q.den < q.num * p.den

SeqsUpTo(S, n) == UNION {[1..k -> S] : k \in 0..n}

Rep(x, n) == [i \in 1..n |-> x]

\* ---------------------------------------------------------------- strings

Whitespace == {" ", "\t"}

RECURSIVE trimStart(_)
trimStart(s) ==
  IF s # <<>> /\ Head(s) \in Whitespace THEN trimStart(Tail(s)) ELSE s

RECURSIVE trimEnd(_)
trimEnd(s) ==
  IF s # <<>> /\ s[Len(s)] \in Whitespace
  THEN trimEnd(SubSeq(s, 1, Len(s) - 1))
  ELSE s

\* String.prototype.trim
trim(s) == trimEnd(trimStart(s))

\* String.prototype.startsWith
startsWith(s, p) == Len(p) <= Len(s) /\ SubSeq(s, 1, Len(p)) = p

\* String.prototype.includes
includes(s, p) ==
  \E i \in 1..(Len(s) - Len(p) + 1) : SubSeq(s, i, i + Len(p) - 1) = p

\* ---------------------------------------------------- DuplicateCode: similarity

countMatchingLines_noDedup(lines1, lines2) ==
  LET set2 == {trim(lines2[i]) : i \in 1..Len(lines2)}
  IN  Cardinality({i \in 1..Len(lines1) : trim(lines1[i]) \in set2})

countMatchingLines(lines1, lines2) ==
  LET set1 == {trim(lines1[i]) : i \in 1..Len(lines1)}
      set2 == {trim(lines2[i]) : i \in 1..Len(lines2)}
  IN  Cardinality({line \in set1 : line \in set2})

\* a variant dividing by the length of the first block
calculateSimilarity_byFirst(lines1, lines2) ==
  IF Len(lines1) = 0 /\ Len(lines2) = 0 THEN Rat(1, 1)
  ELSE IF Len(lines1) = 0 \/ Len(lines2) = 0 THEN Rat(0, 1)
  ELSE Rat(countMatchingLines(lines1, lines2), Len(lines1))

calculateSimilarity(lines1, lines2) ==
  IF Len(lines1) = 0 /\ Len(lines2) = 0 THEN Rat(1, 1)
  ELSE IF Len(lines1) = 0 \/ Len(lines2) = 0 THEN Rat(0, 1)
  ELSE LET matchingLines == countMatchingLines(lines1, lines2)
           maxLength == Max(Len(lines1), Len(lines2))
       IN  Rat(matchingLines, maxLength)

\* ------------------------------------------------------------ code model

\* CodeLine: the constructor trims the content.
CodeLine(content) == [content |-> trim(content)]

\* Method: name, parameters, lines (seq CodeLine); facts holds what the
\* text heuristics of the detectors not modelled line by line measure on it.
Method(name, parameters, lines, facts) ==
  [name |-> name, parameters |-> parameters, lines |-> lines, facts |-> facts]

\* Method.loc
loc(method) == Len(method.lines)

\* Class: methods is the insertion-ordered Set of its Method objects, oid the
\* identity of the Class object.
Class(oid, name, fields, methods, parent, exportedVars, autoload, filePath, facts) ==
  [oid |-> oid, name |-> name, fields |-> fields, methods |-> methods,
   parent |-> parent, exportedVars |-> exportedVars, autoload |-> autoload,
   filePath |-> filePath, facts |-> facts]

RECURSIVE SumLoc(_)
SumLoc(methods) ==
  IF methods = <<>> THEN 0 ELSE loc(Head(methods)) + SumLoc(Tail(methods))

\* Class.getTotalLOC
getTotalLOC(class) == SumLoc(class.methods)

\* GDScriptProject: classes and autoloads are insertion-ordered Sets of Class
\* objects; loadFromDirectory below builds the object.
GDScriptProject(classes, autoloads, facts) ==
  [classes |-> classes, autoloads |-> autoloads, facts |-> facts]

\* ------------------------------------------------------------- thresholds

EmptyMap == [k \in {} |-> 0]

\* thresholds.key || dflt, for a number
Or(thresholds, key, dflt) ==
  IF key \in DOMAIN thresholds /\ thresholds[key] # 0
  THEN thresholds[key] ELSE dflt

\* thresholds.key || dflt, for a ratio
OrRat(thresholds, key, dflt) ==
  IF key \in DOMAIN thresholds /\ thresholds[key].num # 0
  THEN thresholds[key] ELSE dflt

\* thresholds.key || dflt, for a boolean
OrBool(thresholds, key, dflt) ==
  IF key \in DOMAIN thresholds /\ thresholds[key] THEN TRUE ELSE dflt

\* ---------------------------------------------------------- CodeSmellResult

Severities == {"Low", "Medium", "High", "Critical"}

CodeSmellResult(smellName, detected, severity, location, details) ==
  [smellName |-> smellName, detected |-> detected, severity |-> severity,
   location |-> location, details |-> details]

\* !context.key
missing(context, key) == key \notin DOMAIN context

UnknownProject == "Unknown Project"

\* ------------------------------------------------------ Method: metrics

KwIf == <<"i", "f">>

KwElif == <<"e", "l", "i", "f">>

KwWhile == <<"w", "h", "i", "l", "e">>

KwFor == <<"f", "o", "r">>

KwMatch == <<"m", "a", "t", "c", "h">>

KwAnd == <<"a", "n", "d">>

KwOr == <<"o", "r">>

KwYield == <<"y", "i", "e", "l", "d">>

KwAwait == <<"a", "w", "a", "i", "t">>

decisionKeywords == {KwIf, KwElif, KwWhile, KwFor, KwMatch, KwAnd, KwOr}

\* CodeLine.contains
contains(line, substring) == includes(line.content, substring)

\* CodeLine.hasYieldOrAwait
hasYieldOrAwait(line) == contains(line, KwYield) \/ contains(line, KwAwait)

\* a variant without the break: one increment per keyword found in a line
calculateCyclomaticComplexity_perKeyword(method) ==
  1 + Cardinality({<<i, keyword>> \in (1..Len(method.lines)) \X decisionKeywords :
                     contains(method.lines[i], keyword)})

\* Method.calculateCyclomaticComplexity: 1 + the lines holding a keyword
calculateCyclomaticComplexity(method) ==
  1 + Cardinality({i \in 1..Len(method.lines) :
                     \E keyword \in decisionKeywords :
                       contains(method.lines[i], keyword)})

\* Method.getYieldCount
getYieldCount(method) ==
  Cardinality({i \in 1..Len(method.lines) : hasYieldOrAwait(method.lines[i])})

\* -------------------------------------------------------------- LongMethod

LongMethod_analyze(context) ==
  [loc |-> loc(context.method),
   complexity |-> calculateCyclomaticComplexity(context.method),
   yieldCount |-> getYieldCount(context.method)]

LongMethod_decide_inclusive(m, thresholds) ==
  LET maxLines == Or(thresholds, "maxLines", 50)
      maxComplexity == Or(thresholds, "maxComplexity", 10)
      maxYields == Or(thresholds, "maxYields", 7)
      isDetected == \/ m.loc >= maxLines
                    \/ m.complexity > maxComplexity
                    \/ m.yieldCount > maxYields
  IN  [detected |-> isDetected,
       severity |-> IF ~isDetected THEN "null"
                    ELSE IF m.loc > 200 \/ m.complexity > 30 THEN "Critical"
                    ELSE IF m.loc > 100 \/ m.complexity > 20 THEN "High"
                    ELSE IF m.loc > 50 \/ m.complexity > 10 THEN "Medium"
                    ELSE "Low"]

LongMethod_decide(m, thresholds) ==
  LET maxLines == Or(thresholds, "maxLines", 50)
      maxComplexity == Or(thresholds, "maxComplexity", 10)
      maxYields == Or(thresholds, "maxYields", 7)
      isDetected == \/ m.loc > maxLines
                    \/ m.complexity > maxComplexity
                    \/ m.yieldCount > maxYields
  IN  [detected |-> isDetected,
       severity |-> IF ~isDetected THEN "null"
                    ELSE IF m.loc > 200 \/ m.complexity > 30 THEN "Critical"
                    ELSE IF m.loc > 100 \/ m.complexity > 20 THEN "High"
                    ELSE IF m.loc > 50 \/ m.complexity > 10 THEN "Medium"
                    ELSE "Low"]

\* context.ownerClass?.name?.toString()
ownerName(context) ==
  IF missing(context, "ownerClass") THEN "undefined" ELSE context.ownerClass.name

\* context.filePath
filePathOf(context) ==
  IF missing(context, "filePath") THEN "undefined" ELSE context.filePath

methodLocation(context) ==
  [class |-> ownerName(context), method |-> context.method.name,
   file |-> filePathOf(context)]

classLocation(context) ==
  [class |-> context.class.name, file |-> filePathOf(context)]

projectLocation(context) == [project |-> UnknownProject]

LongMethod_detect(context, thresholds) ==
  IF missing(context, "method") THEN null
  ELSE LET m == LongMethod_analyze(context)
           d == LongMethod_decide(m, thresholds)
       IN  CodeSmellResult("LongMethod", d.detected, d.severity,
             methodLocation(context),
             [linesOfCode |-> m.loc, cyclomaticComplexity |-> m.complexity,
              yieldCount |-> m.yieldCount,
              thresholds |-> [maxLines |-> Or(thresholds, "maxLines", 50),
                              maxComplexity |-> Or(thresholds, "maxComplexity", 10),
                              maxYields |-> Or(thresholds, "maxYields", 7)]])

\* --------------------------------------------------- DuplicateCode: detector

RECURSIVE MethodBlocks(_, _)
MethodBlocks(class, methods) ==
  IF methods = <<>> THEN <<>>
  ELSE <<[location |-> [class |-> class.name, method |-> Head(methods).name],
          lines |-> [i \in 1..Len(Head(methods).lines) |->
                       Head(methods).lines[i].content]]>>
       \o MethodBlocks(class, Tail(methods))

RECURSIVE ClassBlocks(_)
ClassBlocks(classes) ==
  IF classes = <<>> THEN <<>>
  ELSE MethodBlocks(Head(classes), Head(classes).methods)
       \o ClassBlocks(Tail(classes))

extractCodeBlocks(proj) == ClassBlocks(proj.classes)

findDuplicates_strict(proj, minLines, minSimilarity) ==
  LET codeBlocks == extractCodeBlocks(proj)
  IN  {p \in (1..Len(codeBlocks)) \X (1..Len(codeBlocks)) :
         /\ p[1] < p[2]
         /\ Len(codeBlocks[p[1]].lines) >= minLines
         /\ Len(codeBlocks[p[2]].lines) >= minLines
         /\ LET similarity == calculateSimilarity(codeBlocks[p[1]].lines,
                                                  codeBlocks[p[2]].lines)
            IN  RatGt(similarity, minSimilarity) /\ similarity.num > 0}

\* The duplicates list, as the set of the index pairs (i, j), i < j, pushed.
findDuplicates(proj, minLines, minSimilarity) ==
  LET codeBlocks == extractCodeBlocks(proj)
  IN  {p \in (1..Len(codeBlocks)) \X (1..Len(codeBlocks)) :
         /\ p[1] < p[2]
         /\ Len(codeBlocks[p[1]].lines) >= minLines
         /\ Len(codeBlocks[p[2]].lines) >= minLines
         /\ LET similarity == calculateSimilarity(codeBlocks[p[1]].lines,
                                                  codeBlocks[p[2]].lines)
            IN  RatGeq(similarity, minSimilarity) /\ similarity.num > 0}

DuplicateCode_decide_dip(m, thresholds) ==
  LET isDetected == m.duplicateCount > 0
  IN  [detected |-> isDetected,
       severity |-> IF ~isDetected THEN "null"
                    ELSE IF m.duplicateCount > 10 THEN "Medium"
                    ELSE IF m.duplicateCount > 5 THEN "High"
                    ELSE IF m.duplicateCount > 2 THEN "Medium"
                    ELSE "Low"]

DuplicateCode_decide(m, thresholds) ==
  LET isDetected == m.duplicateCount > 0
  IN  [detected |-> isDetected,
       severity |-> IF ~isDetected THEN "null"
                    ELSE IF m.duplicateCount > 10 THEN "Critical"
                    ELSE IF m.duplicateCount > 5 THEN "High"
                    ELSE IF m.duplicateCount > 2 THEN "Medium"
                    ELSE "Low"]

DuplicateCode_detect(context, thresholds) ==
  IF missing(context, "project") THEN null
  ELSE LET proj == context.project
           threshold == Or(thresholds, "similarityThreshold", 6)
           minLines == Or(thresholds, "minLines", 5)
           minSimilarity == OrRat(thresholds, "minSimilarity", Rat(3, 5))
           duplicates == findDuplicates(proj, minLines, minSimilarity)
           d == DuplicateCode_decide([duplicateCount |-> Cardinality(duplicates)], thresholds)
       IN  CodeSmellResult("DuplicateCode", d.detected, d.severity,
             projectLocation(context),
             [duplicateCount |-> Cardinality(duplicates),
              thresholds |-> [threshold |-> threshold, minLines |-> minLines,
                              minSimilarity |-> minSimilarity]])

\* ------------------------------------------- the other detectors: decisions
\* X_decide(m, thresholds) is the part of X.detect after the analysis: the
\* defaults, the detection condition and the severity tiers.  m holds what
\* the analysis of the scope measured.

RECURSIVE SeqMax(_)
SeqMax(s) ==
  IF Len(s) = 1 THEN s[1] ELSE Max(s[1], SeqMax(Tail(s)))

graded(isDetected, severity) ==
  [detected |-> isDetected, severity |-> IF isDetected THEN severity ELSE "null"]

LargeClass_decide_noLowTier(m, thresholds) ==
  LET isDetected == \/ m.fieldCount > Or(thresholds, "maxFields", 15)
                    \/ m.methodCount > Or(thresholds, "maxMethods", 20)
                    \/ m.totalLOC > Or(thresholds, "maxLOC", 400)
                    \/ m.exportCount > Or(thresholds, "maxExports", 10)
  IN  [detected |-> isDetected,
       severity |->
         IF isDetected /\ (m.totalLOC > 1000 \/ m.methodCount > 50) THEN "Critical"
         ELSE IF isDetected /\ (m.totalLOC > 600 \/ m.methodCount > 30) THEN "High"
         ELSE IF isDetected /\ (m.totalLOC > 400 \/ m.methodCount > 20) THEN "Medium"
         ELSE "null"]

LargeClass_decide_inclusive(m, thresholds) ==
  LET isDetected == \/ m.fieldCount >= Or(thresholds, "maxFields", 15)
                    \/ m.methodCount > Or(thresholds, "maxMethods", 20)
                    \/ m.totalLOC > Or(thresholds, "maxLOC", 400)
                    \/ m.exportCount > Or(thresholds, "maxExports", 10)
  IN  graded(isDetected,
        IF m.totalLOC > 1000 \/ m.methodCount > 50 THEN "Critical"
        ELSE IF m.totalLOC > 600 \/ m.methodCount > 30 THEN "High"
        ELSE IF m.totalLOC > 400 \/ m.methodCount > 20 THEN "Medium"
        ELSE "Low")

LargeClass_decide(m, thresholds) ==
  LET isDetected == \/ m.fieldCount > Or(thresholds, "maxFields", 15)
                    \/ m.methodCount > Or(thresholds, "maxMethods", 20)
                    \/ m.totalLOC > Or(thresholds, "maxLOC", 400)
                    \/ m.exportCount > Or(thresholds, "maxExports", 10)
  IN  graded(isDetected,
        IF m.totalLOC > 1000 \/ m.methodCount > 50 THEN "Critical"
        ELSE IF m.totalLOC > 600 \/ m.methodCount > 30 THEN "High"
        ELSE IF m.totalLOC > 400 \/ m.methodCount > 20 THEN "Medium"
        ELSE "Low")

LongParameterList_decide(m, thresholds) ==
  LET isDetected == \/ m.paramCount > Or(thresholds, "maxParams", 4)
                    \/ m.relatedGroups > 0
  IN  graded(isDetected,
        IF m.paramCount > 7 THEN "High"
        ELSE IF m.paramCount > 4 THEN "Medium"
        ELSE "Low")

DivergentChange_decide(m, thresholds) ==
  LET isDetected == m.changeReasons > Or(thresholds, "maxReasons", 3)
  IN  graded(isDetected,
        IF m.changeReasons > 7 THEN "Critical"
        ELSE IF m.changeReasons > 5 THEN "High"
        ELSE IF m.changeReasons > 3 THEN "Medium"
        ELSE "Low")

\* m.affected: affectedClasses.length of each shotgun surgery found
ShotgunSurgery_decide(m, thresholds) ==
  LET isDetected == Len(m.affected) > 0
  IN  graded(isDetected,
        LET maxAffectedClasses == SeqMax(m.affected)
        IN  IF maxAffectedClasses > 8 THEN "Critical"
            ELSE IF maxAffectedClasses > 5 THEN "High"
            ELSE IF maxAffectedClasses > 3 THEN "Medium"
            ELSE "Low")

FeatureEnvy_decide(m, thresholds) ==
  LET isDetected == /\ RatGt(m.envyRatio, OrRat(thresholds, "envyRatio", Rat(2, 1)))
                    /\ m.foreignAccessCount > 3
  IN  graded(isDetected,
        IF RatGt(m.envyRatio, Rat(5, 1)) THEN "Critical"
        ELSE IF RatGt(m.envyRatio, Rat(7, 2)) THEN "High"
        ELSE IF RatGt(m.envyRatio, Rat(2, 1)) THEN "Medium"
        ELSE "Low")

\* m.clumps: variables.length of each data clump found
DataClumps_decide(m, thresholds) ==
  LET isDetected == Len(m.clumps) > 0
  IN  graded(isDetected,
        IF SeqMax(m.clumps) >= 5 THEN "High"
        ELSE IF Len(m.clumps) > 3 THEN "Medium"
        ELSE "Low")

PrimitiveObsession_decide(m, thresholds) ==
  LET isDetected ==
        \/ m.magicNumbers > Or(thresholds, "maxMagicNumbers", 5)
        \/ m.magicStrings > Or(thresholds, "maxMagicStrings", 5)
        \/ m.stringGetNodes > Or(thresholds, "maxStringGetNodes", 3)
        \/ m.untypedVars > Or(thresholds, "maxUntypedVars", 3)
  IN  graded(isDetected,
        IF m.magicNumbers > 15 \/ m.untypedVars > 10 THEN "High"
        ELSE IF m.magicNumbers > 5 \/ m.stringGetNodes > 3 THEN "Medium"
        ELSE "Low")

SwitchStatements_decide(m, thresholds) ==
  LET isDetected ==
        \/ m.switchCount > Or(thresholds, "maxSwitches", 2)
        \/ RatGt(m.avgCases, Rat(Or(thresholds, "maxCases", 5), 1))
        \/ m.duplicatedSwitches > 0
  IN  graded(isDetected,
        IF m.duplicatedSwitches > 3 THEN "Critical"
        ELSE IF RatGt(m.avgCases, Rat(10, 1)) \/ m.duplicatedSwitches > 0 THEN "High"
        ELSE IF m.switchCount > 2 THEN "Medium"
        ELSE "Low")

LazyClass_decide(m, thresholds) ==
  LET isDetected == /\ m.totalLOC < Or(thresholds, "minLOC", 20)
                    /\ m.realMethods < Or(thresholds, "minMethods", 2)
  IN  graded(isDetected, IF m.totalLOC < 10 THEN "Medium" ELSE "Low")

SpeculativeGenerality_decide(m, thresholds) ==
  LET isDetected ==
        \/ m.unusedMethods > Or(thresholds, "unusedMethods", 0)
        \/ m.unusedParameters > Or(thresholds, "unusedParameters", 0)
        \/ m.abstractWithFewSubclasses
  IN  graded(isDetected,
        IF m.unusedMethods > 5 THEN "High"
        ELSE IF m.unusedMethods > 2 \/ m.unusedParameters > 3 THEN "Medium"
        ELSE "Low")

\* m.temporaryFields: nullChecks of each temporary field found
TemporaryField_decide(m, thresholds) ==
  LET isDetected == Len(m.temporaryFields) > 0
  IN  graded(isDetected,
        IF SeqMax(m.temporaryFields) > 5 THEN "Medium" ELSE "Low")

\* m.chains: length of each message chain found
MessageChains_decide(m, thresholds) ==
  LET isDetected == Len(m.chains) > 0
  IN  graded(isDetected,
        LET maxDepth == SeqMax(m.chains)
        IN  IF maxDepth > 5 THEN "High"
            ELSE IF maxDepth > 3 THEN "Medium"
            ELSE "Low")

MiddleMan_decide(m, thresholds) ==
  LET isDetected ==
        RatGt(m.delegationRatio, OrRat(thresholds, "maxDelegationRatio", Rat(1, 2)))
  IN  graded(isDetected,
        IF RatGt(m.delegationRatio, Rat(4, 5)) THEN "High"
        ELSE IF RatGt(m.delegationRatio, Rat(1, 2)) THEN "Medium"
        ELSE "Low")

\* m.intimacies: sharedIntimacy of each intimacy found
InappropriateIntimacy_decide(m, thresholds) ==
  LET isDetected == Len(m.intimacies) > 0
  IN  graded(isDetected,
        LET maxSharedIntimacy == SeqMax(m.intimacies)
        IN  IF maxSharedIntimacy > 8 THEN "High"
            ELSE IF maxSharedIntimacy > 3 THEN "Medium"
            ELSE "Low")

DataClass_decide(m, thresholds) ==
  LET isDetected ==
        /\ m.behaviorMethods = Or(thresholds, "behaviorMethods", 0)
        /\ (m.publicFields > Or(thresholds, "publicFields", 0) \/ m.fieldCount > 3)
  IN  graded(isDetected, IF m.publicFields > 5 THEN "Medium" ELSE "Low")

RefusedBequest_decide(m, thresholds) ==
  LET isDetected ==
        \/ RatLt(m.usageRatio, OrRat(thresholds, "usageRatio", Rat(3, 10)))
        \/ m.overriddenEmpty > Or(thresholds, "overriddenEmpty", 0)
  IN  graded(isDetected,
        IF RatLt(m.usageRatio, Rat(1, 5)) \/ m.overriddenEmpty > 5 THEN "High"
        ELSE IF RatLt(m.usageRatio, Rat(3, 10)) \/ m.overriddenEmpty > 3 THEN "Medium"
        ELSE "Low")

Comments_decide(m, thresholds) ==
  LET isDetected ==
        /\ RatGt(m.commentDensity, OrRat(thresholds, "maxCommentDensity", Rat(1, 2)))
        /\ m.codeLines > 10
  IN  graded(isDetected,
        IF RatGt(m.commentDensity, Rat(7, 10)) THEN "Medium" ELSE "Low")

GlobalState_decide_countFirst(m, thresholds) ==
  LET isDetected ==
        \/ m.autoloadCount > Or(thresholds, "maxAutoloads", 5)
        \/ m.totalGlobalVars > Or(thresholds, "maxGlobalVars", 20)
        \/ m.godAutoloads > 0
  IN  graded(isDetected,
        IF m.autoloadCount > 8 \/ m.totalGlobalVars > 40 THEN "High"
        ELSE IF m.godAutoloads > 0 THEN "Critical"
        ELSE IF m.autoloadCount > 5 \/ m.totalGlobalVars > 20 THEN "Medium"
        ELSE "Low")

GlobalState_decide(m, thresholds) ==
  LET isDetected ==
        \/ m.autoloadCount > Or(thresholds, "maxAutoloads", 5)
        \/ m.totalGlobalVars > Or(thresholds, "maxGlobalVars", 20)
        \/ m.godAutoloads > 0
  IN  graded(isDetected,
        IF m.godAutoloads > 0 THEN "Critical"
        ELSE IF m.autoloadCount > 8 \/ m.totalGlobalVars > 40 THEN "High"
        ELSE IF m.autoloadCount > 5 \/ m.totalGlobalVars > 20 THEN "Medium"
        ELSE "Low")

\* AnalyzeProjectUseCase.initializeDetectors, in its order
detectors ==
  <<"LongMethod", "LargeClass", "DuplicateCode", "LongParameterList",
    "DivergentChange", "ShotgunSurgery", "FeatureEnvy", "DataClumps",
    "PrimitiveObsession", "SwitchStatements", "LazyClass",
    "SpeculativeGenerality", "TemporaryField", "MessageChains", "MiddleMan",
    "InappropriateIntimacy", "DataClass", "RefusedBequest", "Comments",
    "GlobalState">>

DetectorNames == {detectors[i] : i \in 1..Len(detectors)}

decide(name, m, thresholds) ==
  CASE name = "LongMethod" -> LongMethod_decide(m, thresholds)
    [] name = "LargeClass" -> LargeClass_decide(m, thresholds)
    [] name = "DuplicateCode" -> DuplicateCode_decide(m, thresholds)
    [] name = "LongParameterList" -> LongParameterList_decide(m, thresholds)
    [] name = "DivergentChange" -> DivergentChange_decide(m, thresholds)
    [] name = "ShotgunSurgery" -> ShotgunSurgery_decide(m, thresholds)
    [] name = "FeatureEnvy" -> FeatureEnvy_decide(m, thresholds)
    [] name = "DataClumps" -> DataClumps_decide(m, thresholds)
    [] name = "PrimitiveObsession" -> PrimitiveObsession_decide(m, thresholds)
    [] name = "SwitchStatements" -> SwitchStatements_decide(m, thresholds)
    [] name = "LazyClass" -> LazyClass_decide(m, thresholds)
    [] name = "SpeculativeGenerality" -> SpeculativeGenerality_decide(m, thresholds)
    [] name = "TemporaryField" -> TemporaryField_decide(m, thresholds)
    [] name = "MessageChains" -> MessageChains_decide(m, thresholds)
    [] name = "MiddleMan" -> MiddleMan_decide(m, thresholds)
    [] name = "InappropriateIntimacy" -> InappropriateIntimacy_decide(m, thresholds)
    [] name = "DataClass" -> DataClass_decide(m, thresholds)
    [] name = "RefusedBequest" -> RefusedBequest_decide(m, thresholds)
    [] name = "Comments" -> Comments_decide(m, thresholds)
    [] name = "GlobalState" -> GlobalState_decide(m, thresholds)

\* ------------------------------------------- specification: block similarity

LineA == <<"a">>

LineB == <<"b">>

LineC == <<"c">>

LineAIndented == <<" ", "a">>

RawLines == {LineA, LineB, LineC, LineAIndented}

idleRun ==
  /\ pc = "Idle"
  /\ config = null
  /\ project = null
  /\ results = <<>>
  /\ cursor = [scope |-> 0, det |-> 0]
  /\ invoked = <<>>
  /\ previous = null

InitSimilarity ==
  /\ idleRun
  /\ args \in [a : SeqsUpTo(RawLines, MaxLen), b : SeqsUpTo(RawLines, MaxLen)]
  /\ out = null

ApplySimilarity ==
  /\ out = null
  /\ out' = [ab |-> calculateSimilarity(args.a, args.b),
             ba |-> calculateSimilarity(args.b, args.a)]
  /\ UNCHANGED <<args, runVars>>

NextSimilarity == ApplySimilarity

SpecSimilarity == InitSimilarity /\ [][NextSimilarity]_vars

\* C10: block similarity is symmetric: similarity(a, b) = similarity(b, a)
\* for all line sequences a and b.
C10_SimilaritySymmetric ==
  out # null => RatEq(out.ab, out.ba)

\* Two blocks of different length, one with a repeated line, that share a line.
C10_Witness ==
  /\ out # null
  /\ Len(args.a) # Len(args.b)
  /\ \E i, j \in 1..Len(args.a) : i # j /\ args.a[i] = args.a[j]
  /\ out.ab.num > 0
  /\ out.ab.num < out.ab.den

\* ----------------------------------------------- specification: DuplicateCode

LineD == <<"d">>

LineE == <<"e">>

LineF == <<"f">>

LineX == <<"x">>

LineY == <<"y">>

LineZ == <<"z">>

\* Six distinct lines, one of them indented in the source file.
SixDistinct == <<LineAIndented, LineB, LineC, LineD, LineE, LineF>>

\* Six distinct lines, three of them lines of SixDistinct.
SixSharingThree == <<LineA, LineB, LineC, LineX, LineY, LineZ>>

\* Six times the same line.
SixRepeated == <<LineA, LineA, LineA, LineA, LineA, LineA>>

BlockLines == {LineA, LineB, LineC}

Bodies ==
  SeqsUpTo(BlockLines, MaxBody) \cup {SixDistinct, SixSharingThree, SixRepeated}

ExtraBody == <<LineA, LineB>>

\* A method parsed from the raw lines of a source file.
ParsedMethod(name, rawLines) ==
  Method(name, <<>>, [i \in 1..Len(rawLines) |-> CodeLine(rawLines[i])], EmptyMap)

PlainClass(oid, name, methods) ==
  Class(oid, name, {}, methods, "null", {}, FALSE, name, EmptyMap)

Shapes == {"oneClass", "twoClasses", "threeMethods"}

DuplicateProject(b1, b2, shape) ==
  LET m1 == ParsedMethod("m1", b1)
      m2 == ParsedMethod("m2", b2)
      m3 == ParsedMethod("m3", ExtraBody)
  IN  CASE shape = "oneClass" ->
             GDScriptProject(<<PlainClass(1, "A", <<m1, m2>>)>>, <<>>, EmptyMap)
        [] shape = "twoClasses" ->
             GDScriptProject(<<PlainClass(1, "A", <<m1>>),
                               PlainClass(2, "B", <<m2>>)>>, <<>>, EmptyMap)
        [] shape = "threeMethods" ->
             GDScriptProject(<<PlainClass(1, "A", <<m1, m3>>),
                               PlainClass(2, "B", <<m2>>)>>, <<>>, EmptyMap)

MinLinesChoices == {EmptyMap, [minLines |-> 0], [minLines |-> 1], [minLines |-> 2]}

MinSimilarityChoices ==
  {EmptyMap, [minSimilarity |-> Rat(1, 2)], [minSimilarity |-> Rat(1, 1)]}

DuplicateThresholds == {a @@ b : a \in MinLinesChoices, b \in MinSimilarityChoices}

InitDuplicate ==
  /\ idleRun
  /\ \E b1 \in Bodies, b2 \in Bodies, shape \in Shapes, th \in DuplicateThresholds :
       args = [project |-> DuplicateProject(b1, b2, shape), thresholds |-> th]
  /\ out = null

ApplyDuplicate ==
  /\ out = null
  /\ out' = DuplicateCode_detect([project |-> args.project], args.thresholds)
  /\ UNCHANGED <<args, runVars>>

NextDuplicate == ApplyDuplicate

SpecDuplicate == InitDuplicate /\ [][NextDuplicate]_vars

blocksOf(proj) ==
  LET codeBlocks == extractCodeBlocks(proj)
  IN  [i \in 1..Len(codeBlocks) |-> codeBlocks[i].lines]

isDefaultThresholds(th) == DOMAIN th = {}

\* C8: two methods whose bodies are the same sequence of lines, of length at
\* least minLines, have block similarity 1.0 and DuplicateCode reports
\* detected = true.
C8_IdenticalBodiesDetected ==
  out # null =>
    LET blocks == blocksOf(args.project)
    IN  \A i, j \in 1..Len(blocks) :
          (i < j /\ blocks[i] = blocks[j]
             /\ Len(blocks[i]) >= out.details.thresholds.minLines)
          => /\ RatEq(calculateSimilarity(blocks[i], blocks[j]), Rat(1, 1))
             /\ out.detected

LineIf == <<"i", "f">>

LineFor == <<"f", "o", "r">>

LineYield == <<"y", "i", "e", "l", "d">>

LineIfAwait == <<"i", "f", " ", "a", "w", "a", "i", "t">>

MethodLines == {LineX, LineIf, LineFor, LineYield, LineIfAwait}

\* Bodies around the default thresholds 50 / 10 / 7.
DefaultEdgeBodies ==
  {Rep(LineX, 50), Rep(LineX, 51), Rep(LineIf, 9), Rep(LineIf, 10),
   Rep(LineYield, 7), Rep(LineYield, 8)}

MethodBodies == SeqsUpTo(MethodLines, MaxLen) \cup DefaultEdgeBodies

LongMethodThresholds ==
  {a @@ b @@ c :
     a \in {EmptyMap, [maxLines |-> 0], [maxLines |-> 1], [maxLines |-> 2]},
     b \in {EmptyMap, [maxComplexity |-> 1], [maxComplexity |-> 2]},
     c \in {EmptyMap, [maxYields |-> 1]}}

InitLongMethod ==
  /\ idleRun
  /\ \E body \in MethodBodies, th \in LongMethodThresholds :
       args = [method |-> ParsedMethod("m1", body), thresholds |-> th]
  /\ out = null

ApplyLongMethod ==
  /\ out = null
  /\ out' = LongMethod_detect(
              [method |-> args.method,
               ownerClass |-> PlainClass(1, "A", <<args.method>>),
               filePath |-> "A"],
              args.thresholds)
  /\ UNCHANGED <<args, runVars>>

NextLongMethod == ApplyLongMethod

SpecLongMethod == InitLongMethod /\ [][NextLongMethod]_vars

\* C4: for every method context and effective threshold set, LongMethod
\* reports detected = true exactly when line count > maxLines, or cyclomatic
\* complexity > maxComplexity, or the number of yield/await lines > maxYields.
C4_LongMethodDetectedIff ==
  out # null =>
    LET eff == out.details.thresholds
        lines == args.method.lines
        yields == {i \in 1..Len(lines) :
                     \/ includes(lines[i].content, KwYield)
                     \/ includes(lines[i].content, KwAwait)}
    IN  out.detected <=>
          \/ Len(lines) > eff.maxLines
          \/ calculateCyclomaticComplexity(args.method) > eff.maxComplexity
          \/ Cardinality(yields) > eff.maxYields

\* A method at the line limit exactly, within the complexity limit, that is
\* detected through its yield/await lines alone.
C4_Witness ==
  /\ out # null
  /\ out.detected
  /\ Len(args.method.lines) = out.details.thresholds.maxLines
  /\ out.details.cyclomaticComplexity <= out.details.thresholds.maxComplexity
  /\ out.details.yieldCount > out.details.thresholds.maxYields

\* ------------------------------------------ specification: severity grading
\* Each of the twenty detectors grades what its analysis measured.  The
\* measurements are drawn around the cut points of the detection conditions
\* and of the severity tiers; the thresholds are absent, zero, low or high.

Counts(S) == {<<>>} \cup {<<a>> : a \in S} \cup {<<a, b>> : a \in S, b \in S}

Several(x) == <<x, x, x, x>>

AnalysisDomain(name) ==
  CASE name = "LongMethod" ->
         [loc : {0, 51, 101, 201}, complexity : {1, 11, 21, 31},
          yieldCount : {0, 8}]
    [] name = "LargeClass" ->
         [fieldCount : {0, 15, 16}, methodCount : {0, 20, 21, 31, 51},
          totalLOC : {0, 400, 401, 601, 1001}, exportCount : {0, 10, 11}]
    [] name = "DuplicateCode" -> [duplicateCount : {0, 1, 3, 6, 11}]
    [] name = "LongParameterList" ->
         [paramCount : {0, 2, 5, 8}, relatedGroups : {0, 1}]
    [] name = "DivergentChange" -> [changeReasons : {0, 2, 4, 6, 8}]
    [] name = "ShotgunSurgery" -> [affected : Counts({2, 4, 6, 9})]
    [] name = "FeatureEnvy" ->
         [envyRatio : {Rat(0, 1), Rat(3, 2), Rat(3, 1), Rat(4, 1), Rat(6, 1)},
          foreignAccessCount : {0, 4}]
    [] name = "DataClumps" ->
         [clumps : Counts({3, 5}) \cup {Several(3)}]
    [] name = "PrimitiveObsession" ->
         [magicNumbers : {0, 6, 16}, magicStrings : {0, 6},
          stringGetNodes : {0, 4}, untypedVars : {0, 4, 11}]
    [] name = "SwitchStatements" ->
         [switchCount : {0, 3}, avgCases : {Rat(0, 1), Rat(11, 2), Rat(11, 1)},
          duplicatedSwitches : {0, 1, 4}]
    [] name = "LazyClass" -> [totalLOC : {0, 9, 15, 25}, realMethods : {0, 1, 2}]
    [] name = "SpeculativeGenerality" ->
         [unusedMethods : {0, 1, 3, 6}, unusedParameters : {0, 1, 4},
          abstractWithFewSubclasses : BOOLEAN]
    [] name = "TemporaryField" -> [temporaryFields : Counts({0, 2, 6})]
    [] name = "MessageChains" -> [chains : Counts({2, 4, 6})]
    [] name = "MiddleMan" ->
         [delegationRatio : {Rat(0, 1), Rat(1, 4), Rat(1, 2), Rat(3, 5),
                             Rat(9, 10), Rat(1, 1)}]
    [] name = "InappropriateIntimacy" -> [intimacies : Counts({1, 4, 9})]
    [] name = "DataClass" ->
         [behaviorMethods : {0, 1}, publicFields : {0, 1, 6},
          fieldCount : {0, 4}]
    [] name = "RefusedBequest" ->
         [usageRatio : {Rat(0, 1), Rat(1, 4), Rat(1, 2), Rat(1, 1)},
          overriddenEmpty : {0, 1, 4, 6}]
    [] name = "Comments" ->
         [commentDensity : {Rat(0, 1), Rat(2, 5), Rat(3, 5), Rat(4, 5)},
          codeLines : {0, 10, 11}]
    [] name = "GlobalState" ->
         [autoloadCount : {0, 6, 9}, totalGlobalVars : {0, 21, 41},
          godAutoloads : {0, 1}]

CountKeys ==
  {"maxLines", "maxComplexity", "maxYields", "maxFields", "maxMethods",
   "maxLOC", "maxExports", "similarityThreshold", "minLines", "maxParams",
   "maxRelatedParams", "maxReasons", "maxClasses", "minClumpSize",
   "minOccurrences", "maxMagicNumbers", "maxMagicStrings",
   "maxStringGetNodes", "maxUntypedVars", "maxSwitches", "maxCases",
   "minLOC", "minMethods", "minResponsibilities", "unusedMethods",
   "unusedParameters", "nullChecks", "maxChainLength", "sharedIntimacy",
   "behaviorMethods", "publicFields", "overriddenEmpty", "maxAutoloads",
   "maxGlobalVars"}

RatioKeys ==
  {"minSimilarity", "envyRatio", "maxDelegationRatio", "usageRatio",
   "maxCommentDensity"}

FlagKeys == {"conditionalUsage", "bidirectionalDependency"}

AllKeys(count, ratio, flag) ==
  [k \in CountKeys \cup RatioKeys \cup FlagKeys |->
     IF k \in CountKeys THEN count ELSE IF k \in RatioKeys THEN ratio ELSE flag]

ThresholdChoices ==
  {EmptyMap, AllKeys(0, Rat(0, 1), FALSE), AllKeys(1, Rat(1, 10), TRUE),
   AllKeys(1000, Rat(1000, 1), TRUE)}

InitSeverity ==
  /\ idleRun
  /\ \E name \in DetectorNames :
       \E m \in AnalysisDomain(name), thresholds \in ThresholdChoices :
         args = [name |-> name, m |-> m, thresholds |-> thresholds]
  /\ out = null

\* detect, from the analysis on: decide, then new CodeSmellResult(...)
ApplyDecide ==
  /\ out = null
  /\ LET d == decide(args.name, args.m, args.thresholds)
     IN  out' = CodeSmellResult(args.name, d.detected, d.severity,
                                [project |-> UnknownProject], args.m)
  /\ UNCHANGED <<args, runVars>>

NextSeverity == ApplyDecide

SpecSeverity == InitSeverity /\ [][NextSeverity]_vars

\* C5: every result a detector returns has a severity among Low, Medium,
\* High, Critical when detected is true, and no severity (null) when
\* detected is false.
C5_SeverityIffDetected ==
  out # null =>
    IF out.detected THEN out.severity \in Severities
    ELSE out.severity = "null"

\* a detected result that falls through every tier to the final else branch
C5_Witness ==
  /\ out # null
  /\ out.smellName = "LargeClass"
  /\ out.detected
  /\ out.severity = "Low"

\* C13: LargeClass is detected exactly when fields > maxFields or methods >
\* maxMethods or class LOC > maxLOC or exports > maxExports, and a class
\* detected through its field count with class LOC <= 400 and methods <= 20
\* has severity Low.
C13_LargeClassDetectedIff ==
  (out # null /\ args.name = "LargeClass") =>
    /\ out.detected <=>
         \/ args.m.fieldCount > Or(args.thresholds, "maxFields", 15)
         \/ args.m.methodCount > Or(args.thresholds, "maxMethods", 20)
         \/ args.m.totalLOC > Or(args.thresholds, "maxLOC", 400)
         \/ args.m.exportCount > Or(args.thresholds, "maxExports", 10)
    /\ (/\ args.m.fieldCount > Or(args.thresholds, "maxFields", 15)
        /\ args.m.totalLOC <= 400
        /\ args.m.methodCount <= 20)
       => out.severity = "Low"

\* exactly 16 fields, nothing else over its default: detected, Low
C13_Witness ==
  /\ out # null
  /\ args.name = "LargeClass"
  /\ args.thresholds = EmptyMap
  /\ args.m = [fieldCount |-> 16, methodCount |-> 20, totalLOC |-> 400,
               exportCount |-> 10]
  /\ out.detected
  /\ out.severity = "Low"

rank(severity) ==
  CASE severity = "Low" -> 1
    [] severity = "Medium" -> 2
    [] severity = "High" -> 3
    [] severity = "Critical" -> 4

RatioFields ==
  {"envyRatio", "avgCases", "delegationRatio", "usageRatio", "commentDensity"}

ListFields == {"affected", "clumps", "temporaryFields", "chains", "intimacies"}

FlagFields == {"abstractWithFewSubclasses"}

\* a <= b for the values of the measurement called field; for a list of
\* findings: at least as many findings, each at least as large
notAbove(field, a, b) ==
  IF field \in RatioFields THEN ~RatGt(a, b)
  ELSE IF field \in ListFields
       THEN Len(a) <= Len(b) /\ \A i \in 1..Len(a) : a[i] <= b[i]
  ELSE IF field \in FlagFields THEN a => b
  ELSE a <= b

\* m2 is m with the measurement called field increased or left alone
raisedIn(field, m, m2) ==
  /\ notAbove(field, m[field], m2[field])
  /\ \A other \in DOMAIN m \ {field} : m[other] = m2[other]

\* the measurements a detector compares with <: the smaller, the worse
SmallerIsWorse ==
  {<<"LazyClass", "totalLOC">>, <<"LazyClass", "realMethods">>,
   <<"RefusedBequest", "usageRatio">>}

\* C14 as stated: among detected results, increasing any one measurement
\* with every other input fixed never lowers the severity rank.
C14_SeverityNeverLowered ==
  (out # null /\ out.detected) =>
    \A field \in DOMAIN args.m :
      \A m2 \in AnalysisDomain(args.name) :
        LET d2 == decide(args.name, m2, args.thresholds)
        IN  (raisedIn(field, args.m, m2) /\ d2.detected)
            => rank(d2.severity) >= rank(out.severity)

\* C14, amended: the same, with the measurement moved in the direction its
\* detection comparison tests: increased where the detector compares with >,
\* decreased for the class LOC and real method count of LazyClass and the
\* usage ratio of RefusedBequest, which are compared with <.
C14_SeverityMonotoneInDirection ==
  (out # null /\ out.detected) =>
    \A field \in DOMAIN args.m :
      \A m2 \in AnalysisDomain(args.name) :
        LET d2 == decide(args.name, m2, args.thresholds)
        IN  (raisedIn(field, args.m, m2) /\ d2.detected)
            => IF <<args.name, field>> \in SmallerIsWorse
               THEN rank(d2.severity) <= rank(out.severity)
               ELSE rank(d2.severity) >= rank(out.severity)

\* a lazy class of 9 LOC, Medium, next to the same class with 15 LOC, Low
C14_Witness ==
  /\ out # null
  /\ args.name = "LazyClass"
  /\ args.thresholds = EmptyMap
  /\ args.m.totalLOC = 9
  /\ out.detected
  /\ out.severity = "Medium"
  /\ LET d2 == decide("LazyClass", [args.m EXCEPT !.totalLOC = 15], EmptyMap)
     IN  d2.detected /\ d2.severity = "Low"

\* ----------------------------------------------------------- AnalysisConfig

\* the defaults of the constructor
DefaultThresholds ==
  [maxLines |-> 50, maxComplexity |-> 10, maxYields |-> 7,
   maxFields |-> 15, maxMethods |-> 20, maxLOC |-> 400, maxExports |-> 10,
   similarityThreshold |-> 6, minLines |-> 5, minSimilarity |-> Rat(3, 5),
   maxParams |-> 4, maxRelatedParams |-> 3,
   maxReasons |-> 3,
   maxClasses |-> 3,
   envyRatio |-> Rat(2, 1),
   minClumpSize |-> 3, minOccurrences |-> 3,
   maxMagicNumbers |-> 5, maxMagicStrings |-> 5, maxStringGetNodes |-> 3,
   maxUntypedVars |-> 3,
   maxSwitches |-> 2, maxCases |-> 5,
   minLOC |-> 20, minMethods |-> 2, minResponsibilities |-> 1,
   unusedMethods |-> 0, unusedParameters |-> 0,
   conditionalUsage |-> FALSE, nullChecks |-> 0,
   maxChainLength |-> 3,
   maxDelegationRatio |-> Rat(1, 2),
   bidirectionalDependency |-> FALSE, sharedIntimacy |-> 0,
   behaviorMethods |-> 0, publicFields |-> 0,
   usageRatio |-> Rat(3, 10), overriddenEmpty |-> 0,
   maxCommentDensity |-> Rat(1, 2),
   maxAutoloads |-> 5, maxGlobalVars |-> 20]

\* config.key || dflt, by the kind of value the key holds
OrDefault(doc, key, dflt) ==
  IF key \in CountKeys THEN Or(doc, key, dflt)
  ELSE IF key \in RatioKeys THEN OrRat(doc, key, dflt)
  ELSE OrBool(doc, key, dflt)

\* config.output?.key; "undefined" stands for an absent section or key, and
\* the booleans of the section are written "true" and "false"
outputOption(doc, key) ==
  IF "output" \in DOMAIN doc /\ key \in DOMAIN doc.output
  THEN doc.output[key] ELSE "undefined"

\* the output settings of the constructor
outputOf(doc) ==
  [format |-> IF outputOption(doc, "format") \in {"undefined", ""}
              THEN "json" ELSE outputOption(doc, "format"),
   directory |-> IF outputOption(doc, "directory") \in {"undefined", ""}
                 THEN "./analysis-results" ELSE outputOption(doc, "directory"),
   includeDetails |-> IF outputOption(doc, "includeDetails") # "false"
                      THEN "true" ELSE "false",
   groupBySeverity |-> IF outputOption(doc, "groupBySeverity") \in {"undefined", "false"}
                       THEN "false" ELSE outputOption(doc, "groupBySeverity")]

\* new AnalysisConfig(doc): every threshold is read from the top level of
\* the document; enabledDetectors is taken as given.
AnalysisConfig(doc) ==
  [thresholds |-> [k \in DOMAIN DefaultThresholds |->
                     OrDefault(doc, k, DefaultThresholds[k])],
   enabledDetectors |-> IF "enabledDetectors" \in DOMAIN doc
                        THEN doc.enabledDetectors ELSE detectors,
   output |-> outputOf(doc)]

\* the document saveToFile dumps
savedDocument(cfg) ==
  [thresholds |-> cfg.thresholds, enabledDetectors |-> cfg.enabledDetectors,
   output |-> cfg.output]

getDefaultConfig == AnalysisConfig(EmptyMap)

\* a variant that takes every detector for enabled
isDetectorEnabled_always(cfg, detectorName) == TRUE

isDetectorEnabled(cfg, detectorName) ==
  \E i \in 1..Len(cfg.enabledDetectors) : cfg.enabledDetectors[i] = detectorName

detectorThresholds(detectorName) ==
  CASE detectorName = "LongMethod" -> {"maxLines", "maxComplexity", "maxYields"}
    [] detectorName = "LargeClass" ->
         {"maxFields", "maxMethods", "maxLOC", "maxExports"}
    [] detectorName = "DuplicateCode" ->
         {"similarityThreshold", "minLines", "minSimilarity"}
    [] detectorName = "LongParameterList" -> {"maxParams", "maxRelatedParams"}
    [] detectorName = "DivergentChange" -> {"maxReasons"}
    [] detectorName = "ShotgunSurgery" -> {"maxClasses"}
    [] detectorName = "FeatureEnvy" -> {"envyRatio"}
    [] detectorName = "DataClumps" -> {"minClumpSize", "minOccurrences"}
    [] detectorName = "PrimitiveObsession" ->
         {"maxMagicNumbers", "maxMagicStrings", "maxStringGetNodes",
          "maxUntypedVars"}
    [] detectorName = "SwitchStatements" -> {"maxSwitches", "maxCases"}
    [] detectorName = "LazyClass" -> {"minLOC", "minMethods", "minResponsibilities"}
    [] detectorName = "SpeculativeGenerality" -> {"unusedMethods", "unusedParameters"}
    [] detectorName = "TemporaryField" -> {"conditionalUsage", "nullChecks"}
    [] detectorName = "MessageChains" -> {"maxChainLength"}
    [] detectorName = "MiddleMan" -> {"maxDelegationRatio"}
    [] detectorName = "InappropriateIntimacy" ->
         {"bidirectionalDependency", "sharedIntimacy"}
    [] detectorName = "DataClass" -> {"behaviorMethods", "publicFields"}
    [] detectorName = "RefusedBequest" -> {"usageRatio", "overriddenEmpty"}
    [] detectorName = "Comments" -> {"maxCommentDensity"}
    [] detectorName = "GlobalState" -> {"maxAutoloads", "maxGlobalVars"}
    [] OTHER -> {}

getDetectorThresholds(cfg, detectorName) ==
  [threshold \in detectorThresholds(detectorName) |-> cfg.thresholds[threshold]]

\* --------------------------------------------- the detectors: detect
\* What the text heuristics of a detector (findMessageChains,
\* analyzeFieldAccess, ...) measure on a method, class or project is carried
\* by that entity as facts[detectorName]; an entity without an entry gives
\* the heuristic nothing to find.  Sizes that the detector reads off the
\* entity itself (parameters.length, fields.size, getTotalLOC, ...) are
\* computed from it.

\* CommentsDetector.isCommentLine
isCommentLine(content) == startsWith(content, <<"#">>)

\* the analysis record of CommentsDetector from the two counts
commentAnalysis(commentLines, codeLines) ==
  LET totalLines == commentLines + codeLines
  IN  [commentLines |-> commentLines,
       codeLines |-> codeLines,
       totalLines |-> totalLines,
       commentDensity |-> IF totalLines > 0 THEN Rat(commentLines, totalLines)
                          ELSE Rat(0, 1),
       commentRatio |-> IF codeLines > 0 THEN Rat(commentLines, codeLines)
                        ELSE Rat(0, 1)]

\* the lines of a method that are not empty once trimmed
nonBlank(lines) == SelectSeq(lines, LAMBDA line : trim(line.content) # <<>>)

countCommentLines(method) ==
  Len(SelectSeq(nonBlank(method.lines),
                LAMBDA line : isCommentLine(trim(line.content))))

countCodeLines(method) ==
  Len(SelectSeq(nonBlank(method.lines),
                LAMBDA line : ~isCommentLine(trim(line.content))))

\* CommentsDetector.analyzeMethodComments
analyzeMethodComments(method) ==
  commentAnalysis(countCommentLines(method), countCodeLines(method))

RECURSIVE SumComments(_)
SumComments(methods) ==
  IF methods = <<>> THEN 0
  ELSE countCommentLines(Head(methods)) + SumComments(Tail(methods))

RECURSIVE SumCode(_)
SumCode(methods) ==
  IF methods = <<>> THEN 0
  ELSE countCodeLines(Head(methods)) + SumCode(Tail(methods))

\* CommentsDetector.analyzeClassComments
analyzeClassComments(class) ==
  commentAnalysis(SumComments(class.methods), SumCode(class.methods))

\* CommentsDetector.analyzeComments: a method has lines, a class has not
analyzeComments(target) ==
  IF "lines" \in DOMAIN target THEN analyzeMethodComments(target)
  ELSE analyzeClassComments(target)

\* ------------------------------------- SwitchStatements: the analysis
Digits == {"0", "1", "2", "3", "4", "5", "6", "7", "8", "9"}

\* [a-zA-Z_]
IdentStart ==
  {"a", "b", "c", "d", "e", "f", "g", "h", "i", "j", "k", "l", "m", "n", "o",
   "p", "q", "r", "s", "t", "u", "v", "w", "x", "y", "z", "A", "B", "C", "D",
   "E", "F", "G", "H", "I", "J", "K", "L", "M", "N", "O", "P", "Q", "R", "S",
   "T", "U", "V", "W", "X", "Y", "Z", "_"}

\* the longest prefix of s made of characters of S
RECURSIVE takeWhile(_, _)
takeWhile(s, S) ==
  IF s = <<>> \/ Head(s) \notin S THEN <<>>
  ELSE <<Head(s)>> \o takeWhile(Tail(s), S)

\* matchLine.match(/match\s+([a-zA-Z_][a-zA-Z0-9_]*)/) on a line that starts
\* with "match ": the identifier after the blanks, '' where none follows
matchVariable(content) ==
  LET rest == trimStart(SubSeq(content, 6, Len(content)))
  IN  IF rest # <<>> /\ Head(rest) \in IdentStart
      THEN takeWhile(rest, IdentStart \cup Digits) ELSE <<>>

\* line.match(/^\s*\d+:/)
digitsColon(line) ==
  LET t == trimStart(line)
      d == takeWhile(t, Digits)
  IN  d # <<>> /\ Len(t) > Len(d) /\ t[Len(d) + 1] = ":"

\* line.match(/^\s*"[^{"]+":/)
quotedColon(line) ==
  LET t == trimStart(line)
  IN  /\ t # <<>>
      /\ Head(t) = "\""
      /\ \E n \in 1..(Len(t) - 3) :
           /\ \A i \in 2..(n + 1) : t[i] \notin {"{", "\""}
           /\ t[n + 2] = "\""
           /\ t[n + 3] = ":"

isCaseLine(line) ==
  includes(line, <<"-", ">">>) \/ digitsColon(line) \/ quotedColon(line)

\* the line does not start with a blank or a tab
notIndented(line) == ~startsWith(line, <<" ">>) /\ ~startsWith(line, <<"\t">>)

\* analyzeMatchStatement: the loop over the lines after the match line, with
\* its break (indices from 1)
RECURSIVE countMatchCases(_, _, _)
countMatchCases(lines, startIndex, i) ==
  IF i > Len(lines) THEN 0
  ELSE LET line == trim(lines[i].content)
           counted == IF isCaseLine(line) THEN 1 ELSE 0
       IN  IF notIndented(line) /\ i > startIndex + 1 THEN counted
           ELSE counted + countMatchCases(lines, startIndex, i + 1)

analyzeMatchStatement(lines, startIndex) ==
  [type |-> "match",
   variable |-> matchVariable(lines[startIndex].content),
   cases |-> countMatchCases(lines, startIndex, startIndex + 1)]

KwElifBlank == <<"e", "l", "i", "f", " ">>

\* isLongIfChain: the elif lines counted by its loop
RECURSIVE countElifs(_, _, _)
countElifs(lines, startIndex, i) ==
  IF i > Len(lines) THEN 0
  ELSE LET line == trim(lines[i].content)
       IN  IF startsWith(line, KwElifBlank)
           THEN 1 + countElifs(lines, startIndex, i + 1)
           ELSE IF notIndented(line) /\ i > startIndex THEN 0
           ELSE countElifs(lines, startIndex, i + 1)

isLongIfChain(lines, startIndex) == countElifs(lines, startIndex, startIndex) >= 2

\* countIfChainCases: what its loop adds to the initial 1
RECURSIVE countChainCases(_, _, _)
countChainCases(lines, startIndex, i) ==
  IF i > Len(lines) THEN 0
  ELSE LET line == trim(lines[i].content)
       IN  IF startsWith(line, KwElifBlank)
           THEN 1 + countChainCases(lines, startIndex, i + 1)
           ELSE IF \/ startsWith(line, <<"e", "l", "s", "e", ":">>)
                   \/ startsWith(line, <<"e", "l", "s", "e", " ">>)
           THEN 1
           ELSE IF notIndented(line) /\ i > startIndex THEN 0
           ELSE countChainCases(lines, startIndex, i + 1)

countIfChainCases(lines, startIndex) ==
  1 + countChainCases(lines, startIndex, startIndex + 1)

\* the entries the loop of analyzeSwitchStatements pushes for lines i..
RECURSIVE switchesFrom(_, _)
switchesFrom(lines, i) ==
  IF i > Len(lines) THEN <<>>
  ELSE LET content == trim(lines[i].content)
           matches == IF startsWith(content, <<"m", "a", "t", "c", "h", " ">>)
                      THEN <<analyzeMatchStatement(lines, i)>> ELSE <<>>
           chains == IF startsWith(content, <<"i", "f", " ">>) /\ isLongIfChain(lines, i)
                     THEN <<[type |-> "if_chain",
                             cases |-> countIfChainCases(lines, i)]>>
                     ELSE <<>>
       IN  matches \o chains \o switchesFrom(lines, i + 1)

\* duplicatedSwitches: for every match, the earlier entries with its variable
duplicatesIn(switches) ==
  Cardinality({<<j, k>> \in (1..Len(switches)) \X (1..Len(switches)) :
                 /\ j < k
                 /\ switches[j].type = "match"
                 /\ switches[k].type = "match"
                 /\ switches[j].variable = switches[k].variable})

RECURSIVE SumCases(_)
SumCases(switches) ==
  IF switches = <<>> THEN 0 ELSE Head(switches).cases + SumCases(Tail(switches))

analyzeSwitchStatements(method) ==
  LET switches == switchesFrom(method.lines, 1)
      switchCount == Len(switches)
  IN  [switchCount |-> switchCount,
       avgCases |-> IF switchCount > 0 THEN Rat(SumCases(switches), switchCount)
                    ELSE Rat(0, 1),
       duplicatedSwitches |-> duplicatesIn(switches),
       switches |-> switches]

\* --------------------------------------- MessageChains: the analysis
\* \w
WordChars == IdentStart \cup Digits

Blanks == {" ", "\t"}

\* the suffix of s from position i on
suffixFrom(s, i) == SubSeq(s, i, Len(s))

\* The length of a group \.\w+\(\s*\) at the head of s, 0 where s does not
\* start with one.
groupLength(s) ==
  IF s = <<>> \/ Head(s) # "." THEN 0
  ELSE LET word == takeWhile(Tail(s), WordChars)
           afterWord == suffixFrom(s, 2 + Len(word))
       IN  IF word = <<>> \/ afterWord = <<>> \/ Head(afterWord) # "(" THEN 0
           ELSE LET blanks == takeWhile(Tail(afterWord), Blanks)
                    afterBlanks == suffixFrom(afterWord, 2 + Len(blanks))
                IN  IF afterBlanks = <<>> \/ Head(afterBlanks) # ")" THEN 0
                    ELSE 1 + Len(word) + 1 + Len(blanks) + 1

\* the groups at the head of s: how many, and how many characters in all
RECURSIVE groupsAt(_)
groupsAt(s) ==
  LET n == groupLength(s)
  IN  IF n = 0 THEN [count |-> 0, length |-> 0]
      ELSE LET rest == groupsAt(suffixFrom(s, n + 1))
           IN  [count |-> rest.count + 1, length |-> rest.length + n]

\* extractCallChains: the lengths of the chains pushed, match after match
\* of /(\w+(?:\.\w+\(\s*\))+)/g; the calls of a match are its groups
RECURSIVE extractCallChains(_)
extractCallChains(content) ==
  IF content = <<>> THEN <<>>
  ELSE IF Head(content) \notin WordChars THEN extractCallChains(Tail(content))
  ELSE LET word == takeWhile(content, WordChars)
           groups == groupsAt(suffixFrom(content, Len(word) + 1))
           rest == extractCallChains(suffixFrom(content, Len(word) + groups.length + 1))
       IN  IF groups.count > 1 THEN <<groups.count>> \o rest ELSE rest

\* path.split('/').length
segmentCount(path) == 1 + Len(SelectSeq(path, LAMBDA c : c = "/"))

\* extractNodePathChains: the lengths of the chains pushed, match after
\* match of /\$([^\/\s]+)/g
RECURSIVE extractNodePathChains(_)
extractNodePathChains(content) ==
  IF content = <<>> THEN <<>>
  ELSE IF Head(content) # "$" THEN extractNodePathChains(Tail(content))
  ELSE LET path == takeWhile(Tail(content),
                             {c \in {content[i] : i \in DOMAIN content} :
                                c \notin Blanks \cup {"/"}})
           rest == extractNodePathChains(suffixFrom(content, 2 + Len(path)))
       IN  IF path # <<>> /\ segmentCount(path) > 1
           THEN <<segmentCount(path)>> \o rest ELSE rest

\* findChainsInMethod: the lengths of the chains it keeps, line by line
RECURSIVE findChainsInLines(_)
findChainsInLines(lines) ==
  IF lines = <<>> THEN <<>>
  ELSE LET content == Head(lines).content
       IN  SelectSeq(extractCallChains(content), LAMBDA n : n > 3)
           \o SelectSeq(extractNodePathChains(content), LAMBDA n : n > 3)
           \o findChainsInLines(Tail(lines))

findChainsInMethod(method) == findChainsInLines(method.lines)

RECURSIVE findChainsInMethods(_)
findChainsInMethods(methods) ==
  IF methods = <<>> THEN <<>>
  ELSE findChainsInMethod(Head(methods)) \o findChainsInMethods(Tail(methods))

\* findMessageChains: a method has lines, a class has not
findMessageChains(target) ==
  IF "lines" \in DOMAIN target THEN findChainsInMethod(target)
  ELSE findChainsInMethods(target.methods)

NoFinding(name) ==
  CASE name = "LongParameterList" -> [relatedGroups |-> 0]
    [] name = "DivergentChange" -> [changeReasons |-> 0]
    [] name = "ShotgunSurgery" -> [affected |-> <<>>]
    [] name = "FeatureEnvy" -> [envyRatio |-> Rat(0, 1), foreignAccessCount |-> 0]
    [] name = "DataClumps" -> [clumps |-> <<>>]
    [] name = "PrimitiveObsession" ->
         [magicNumbers |-> 0, magicStrings |-> 0, stringGetNodes |-> 0,
          untypedVars |-> 0]
    [] name = "SwitchStatements" ->
         [switchCount |-> 0, avgCases |-> Rat(0, 1), duplicatedSwitches |-> 0]
    [] name = "LazyClass" -> [trivialMethods |-> 0]
    [] name = "SpeculativeGenerality" ->
         [unusedMethods |-> 0, unusedParameters |-> 0,
          abstractWithFewSubclasses |-> FALSE]
    [] name = "TemporaryField" -> [temporaryFields |-> <<>>]
    [] name = "MessageChains" -> [chains |-> <<>>]
    [] name = "MiddleMan" -> [delegationRatio |-> Rat(0, 1)]
    [] name = "InappropriateIntimacy" -> [intimacies |-> <<>>]
    [] name = "DataClass" -> [behaviorMethods |-> 0, publicFields |-> 0]
    [] name = "RefusedBequest" -> [usageRatio |-> Rat(1, 1), overriddenEmpty |-> 0]
    [] name = "Comments" -> [commentDensity |-> Rat(0, 1), codeLines |-> 0]
    [] name = "GlobalState" -> [totalGlobalVars |-> 0, godAutoloads |-> 0]

factsOf(target, name) ==
  IF name \in DOMAIN target.facts THEN target.facts[name] ELSE NoFinding(name)

MethodDetectors == {"LongMethod", "LongParameterList", "SwitchStatements"}

ClassDetectors ==
  {"LargeClass", "DivergentChange", "PrimitiveObsession", "LazyClass",
   "TemporaryField", "MiddleMan", "DataClass"}

MethodOrClassDetectors == {"MessageChains", "Comments"}

ClassOrProjectDetectors == {"SpeculativeGenerality", "InappropriateIntimacy"}

ProjectDetectors == {"DuplicateCode", "ShotgunSurgery", "DataClumps", "GlobalState"}

\* the guards at the head of each detect: FALSE where it returns null
applicable(name, context) ==
  CASE name \in MethodDetectors -> ~missing(context, "method")
    [] name = "FeatureEnvy" ->
         ~missing(context, "method") /\ ~missing(context, "ownerClass")
    [] name \in ClassDetectors -> ~missing(context, "class")
    [] name = "RefusedBequest" ->
         ~missing(context, "class") /\ context.class.parent # "null"
    [] name \in MethodOrClassDetectors ->
         ~missing(context, "method") \/ ~missing(context, "class")
    [] name \in ClassOrProjectDetectors ->
         ~missing(context, "class") \/ ~missing(context, "project")
    [] name \in ProjectDetectors -> ~missing(context, "project")

\* const target = context.method || context.class, and the like
targetOf(name, context) ==
  CASE name \in MethodDetectors \cup {"FeatureEnvy"} -> context.method
    [] name \in ClassDetectors \cup {"RefusedBequest"} -> context.class
    [] name \in MethodOrClassDetectors ->
         IF ~missing(context, "method") THEN context.method ELSE context.class
    [] name \in ClassOrProjectDetectors ->
         IF ~missing(context, "class") THEN context.class ELSE context.project
    [] name \in ProjectDetectors -> context.project

\* const location = ...
locationOf(name, context) ==
  CASE name \in MethodDetectors \cup {"FeatureEnvy"} -> methodLocation(context)
    [] name \in ClassDetectors -> classLocation(context)
    [] name = "RefusedBequest" ->
         [class |-> context.class.name, parent |-> context.class.parent,
          file |-> filePathOf(context)]
    [] name \in MethodOrClassDetectors ->
         IF ~missing(context, "method") THEN methodLocation(context)
         ELSE classLocation(context)
    [] name \in ClassOrProjectDetectors ->
         IF ~missing(context, "class") THEN classLocation(context)
         ELSE projectLocation(context)
    [] name \in ProjectDetectors -> projectLocation(context)

\* what the detector measures on its target
analyze(name, context) ==
  LET target == targetOf(name, context)
      facts == factsOf(target, name)
  IN  CASE name = "LargeClass" ->
             [fieldCount |-> Cardinality(target.fields),
              methodCount |-> Len(target.methods),
              totalLOC |-> getTotalLOC(target),
              exportCount |-> Cardinality(target.exportedVars)]
        [] name = "LongParameterList" ->
             [paramCount |-> Len(target.parameters),
              relatedGroups |-> facts.relatedGroups]
        [] name = "LazyClass" ->
             [totalLOC |-> getTotalLOC(target),
              realMethods |-> Len(target.methods) - facts.trivialMethods]
        [] name = "DataClass" ->
             [behaviorMethods |-> facts.behaviorMethods,
              publicFields |-> facts.publicFields,
              fieldCount |-> Cardinality(target.fields)]
        [] name = "GlobalState" ->
             [autoloadCount |-> Len(target.autoloads),
              totalGlobalVars |-> facts.totalGlobalVars,
              godAutoloads |-> facts.godAutoloads]
        [] name = "Comments" -> analyzeComments(target)
        [] name = "SwitchStatements" -> analyzeSwitchStatements(target)
        [] name = "MessageChains" -> [chains |-> findMessageChains(target)]
        [] OTHER -> facts

\* detector.detect(context, thresholds) of the detector called name
detect(name, context, thresholds) ==
  CASE name = "LongMethod" -> LongMethod_detect(context, thresholds)
    [] name = "DuplicateCode" -> DuplicateCode_detect(context, thresholds)
    [] OTHER ->
         IF ~applicable(name, context) THEN null
         ELSE LET m == analyze(name, context)
                  d == decide(name, m, thresholds)
              IN  CodeSmellResult(name, d.detected, d.severity,
                                  locationOf(name, context), m)

\* -------------------------------------------- GDScriptProjectRepository

\* A source file is given by the base name of the file (its characters),
\* the class parseAsClass builds from it (autoload = false) and whether the
\* file lies directly in the project directory.

\* new Identifier(value) does not throw
validIdentifier(value) == trim(value) # <<>>

\* parseFile: the classes of one file; an error thrown while the file is
\* parsed (here: by Identifier.from(className), className being the base
\* name of the file) is caught, and the file gives no class.
parseFile(file) ==
  IF validIdentifier(file.baseName) THEN <<file.class>> ELSE <<>>

RECURSIVE classesOf(_)
classesOf(files) ==
  IF files = <<>> THEN <<>> ELSE parseFile(Head(files)) \o classesOf(Tail(files))

validate_flagOnly(classes, autoloads) ==
  \A i \in 1..Len(autoloads) : autoloads[i].autoload

\* GDScriptProject.validate
validate(classes, autoloads) ==
  \A i \in 1..Len(autoloads) :
    /\ \E j \in 1..Len(classes) : classes[j].oid = autoloads[i].oid
    /\ autoloads[i].autoload

\* new GDScriptProject(classes, scenes, autoloads): the object, or null where
\* validate throws
newGDScriptProject(classes, autoloads) ==
  IF validate(classes, autoloads)
  THEN GDScriptProject(classes, autoloads, EmptyMap)
  ELSE null

\* loadFromDirectory: the project, or null where the constructor throws
loadFromDirectory(files) ==
  LET classes == classesOf(files)
      autoloads == classesOf(SelectSeq(files, LAMBDA f : f.inRoot))
  IN  newGDScriptProject(classes, autoloads)

\* ---------------------------------------------------- AnalyzeProjectUseCase

RECURSIVE methodContextsOf(_, _)
methodContextsOf(class, methods) ==
  IF methods = <<>> THEN <<>>
  ELSE <<[method |-> Head(methods), ownerClass |-> class,
          filePath |-> class.filePath]>>
       \o methodContextsOf(class, Tail(methods))

\* the method contexts in the order of the two nested loops
RECURSIVE methodContexts(_)
methodContexts(classes) ==
  IF classes = <<>> THEN <<>>
  ELSE methodContextsOf(Head(classes), Head(classes).methods)
       \o methodContexts(Tail(classes))

classContext(proj, i) ==
  [class |-> proj.classes[i], project |-> proj,
   filePath |-> proj.classes[i].filePath]

projectContext(proj) == [project |-> proj]

\* The loop over this.detectors for one context, from detector i on: the
\* results pushed.  site names the scope, throws the invocations that throw;
\* a throw is caught and the loop goes on with the next detector.
RECURSIVE runDetectors_abortOnThrow(_, _, _, _, _)
runDetectors_abortOnThrow(i, context, site, cfg, throws) ==
  IF i > Len(detectors) THEN <<>>
  ELSE LET name == detectors[i]
           rest == runDetectors_abortOnThrow(i + 1, context, site, cfg, throws)
       IN  IF ~isDetectorEnabled(cfg, name) THEN rest
           ELSE IF <<name, site>> \in throws THEN <<>>
           ELSE LET result == detect(name, context, getDetectorThresholds(cfg, name))
                IN  IF result # null THEN <<result>> \o rest ELSE rest

RECURSIVE runDetectors(_, _, _, _, _)
runDetectors(i, context, site, cfg, throws) ==
  IF i > Len(detectors) THEN <<>>
  ELSE LET name == detectors[i]
           rest == runDetectors(i + 1, context, site, cfg, throws)
       IN  IF ~isDetectorEnabled(cfg, name) THEN rest
           ELSE IF <<name, site>> \in throws THEN rest
           ELSE LET result == detect(name, context, getDetectorThresholds(cfg, name))
                IN  IF result # null THEN <<result>> \o rest ELSE rest

\* the detect calls the loop makes for one context
invocationsAt(site, cfg) ==
  LET enabled == SelectSeq(detectors, LAMBDA name : isDetectorEnabled(cfg, name))
  IN  [i \in 1..Len(enabled) |-> [detector |-> enabled[i], site |-> site]]

\* const results = []
freshResults_kept == results

freshResults == <<>>

countMethods(proj) == Len(methodContexts(proj.classes))

\* AnalysisResult.from(project, results, config, metadata)
AnalysisResult(proj, res, cfg, metadata) ==
  [project |-> proj, results |-> res, config |-> cfg, metadata |-> metadata]

\* ------------------------------------------------- specification: a run
\* execute(projectPath, configPath) and, after it, the analysis of the same
\* model under the same configuration once more.

MaxClasses == 2

MoveMethod ==
  Method("move", <<"dx", "dy">>, <<CodeLine(LineIf), CodeLine(LineA)>>,
         [FeatureEnvy |-> [envyRatio |-> Rat(3, 1), foreignAccessCount |-> 4]])

PlayerFile ==
  [baseName |-> <<"p">>,
   inRoot |-> FALSE,
   class |-> Class(1, "Player", {"hp", "speed"},
                   <<MoveMethod, ParsedMethod("hit", <<LineA, LineB>>)>>,
                   "null", {"hp"}, FALSE, "scripts/player.gd",
                   [MiddleMan |-> [delegationRatio |-> Rat(3, 5)]])]

EnemyFile ==
  [baseName |-> <<"e">>,
   inRoot |-> FALSE,
   class |-> Class(2, "Enemy", {"hp"},
                   <<ParsedMethod("attack", <<LineAIndented, LineB>>)>>,
                   "Player", {}, FALSE, "scripts/enemy.gd",
                   [RefusedBequest |->
                      [usageRatio |-> Rat(1, 4), overriddenEmpty |-> 0]])]

SettingsFile ==
  [baseName |-> <<"s">>,
   inRoot |-> FALSE,
   class |-> Class(3, "Settings", {}, <<>>, "null", {}, FALSE,
                   "scripts/settings.gd", EmptyMap)]

MainFile ==
  [baseName |-> <<"m">>,
   inRoot |-> TRUE,
   class |-> Class(4, "Main", {}, <<ParsedMethod("run", <<LineA>>)>>,
                   "null", {}, FALSE, "main.gd", EmptyMap)]

\* a file called " .gd": the class name would be blank
BlankFile ==
  [baseName |-> <<" ">>,
   inRoot |-> FALSE,
   class |-> Class(5, " ", {}, <<ParsedMethod("run", <<LineA>>)>>,
                   "null", {}, FALSE, "scripts/ .gd", EmptyMap)]

Files == {PlayerFile, EnemyFile, SettingsFile, MainFile, BlankFile}

\* the files found in the project directory: distinct files, in any order
FileLists ==
  {fs \in SeqsUpTo(Files, MaxClasses) :
     \A i, j \in 1..Len(fs) : i # j => fs[i] # fs[j]}

\* The configuration: no configPath (null), a path to no file, or the
\* document yaml.load returns.
NoSuchFile == [enoent |-> TRUE]

NestedThresholdsDoc == [thresholds |-> [maxLines |-> 1, minLines |-> 2]]

TopLevelDoc == [maxLines |-> 1, minLines |-> 2]

EnabledDoc ==
  [enabledDetectors |-> <<"LongMethod", "LargeClass", "GlobalState">>]

SavedDefaultsDoc ==
  [thresholds |-> DefaultThresholds, enabledDetectors |-> detectors]

\* a configuration naming a detector that does not exist
UnknownDetectorDoc ==
  [enabledDetectors |-> <<"LongMethod", "NoSuchDetector">>]

ConfigDocs ==
  {null, NoSuchFile, NestedThresholdsDoc, TopLevelDoc, EnabledDoc,
   SavedDefaultsDoc, UnknownDetectorDoc}

\* String.prototype.toLowerCase over the letters of the format names
toLowerCase(s) ==
  [i \in DOMAIN s |->
     CASE s[i] = "J" -> "j" [] s[i] = "S" -> "s" [] s[i] = "O" -> "o"
       [] s[i] = "N" -> "n" [] s[i] = "X" -> "x" [] s[i] = "M" -> "m"
       [] s[i] = "L" -> "l" [] s[i] = "T" -> "t" [] s[i] = "H" -> "h"
       [] OTHER -> s[i]]

\* the cases of the switch in saveResult
savedFormats ==
  {<<"j", "s", "o", "n">>, <<"t", "x", "t">>, <<"h", "t", "m", "l">>}

\* saveResult does not throw "Unsupported format"
saveResultAccepts(format) == toLowerCase(format) \in savedFormats

\* the values of --format (the option defaults to json)
Formats == {<<"j", "s", "o", "n">>, <<"J", "S", "O", "N">>, <<"x", "m", "l">>}

\* at most one invocation throws
ThrowChoices ==
  {{}} \cup {{<<name, site>>} :
               name \in {"LongMethod", "LargeClass", "DuplicateCode", "GlobalState"},
               site \in {<<"method", 1>>, <<"class", 1>>, <<"project", 1>>}}

Init ==
  /\ pc = "Idle"
  /\ config = null
  /\ project = null
  /\ results = <<>>
  /\ cursor = [scope |-> 0, det |-> 0]
  /\ invoked = <<>>
  /\ previous = null
  /\ args \in [configDoc : ConfigDocs, files : FileLists,
                throws : ThrowChoices, format : Formats]
  /\ out = null

\* configPath ? loadFromFile(configPath) : getDefaultConfig()
LoadConfig ==
  /\ pc = "Idle"
  /\ args.configDoc # NoSuchFile
  /\ config' = IF args.configDoc = null THEN getDefaultConfig
               ELSE AnalysisConfig(args.configDoc)
  /\ pc' = "ConfigLoaded"
  /\ UNCHANGED <<project, results, cursor, invoked, previous, args, out>>

\* loadFromFile throws; execute rethrows as "Analysis failed: ..."
LoadConfigFails ==
  /\ pc = "Idle"
  /\ args.configDoc = NoSuchFile
  /\ pc' = "Failed"
  /\ out' = [error |-> "Analysis failed"]
  /\ UNCHANGED <<config, project, results, cursor, invoked, previous, args>>

LoadProject ==
  /\ pc = "ConfigLoaded"
  /\ loadFromDirectory(args.files) # null
  /\ project' = loadFromDirectory(args.files)
  /\ pc' = "ModelBuilt"
  /\ UNCHANGED <<config, results, cursor, invoked, previous, args, out>>

\* the GDScriptProject constructor throws; execute rethrows
LoadProjectFails ==
  /\ pc = "ConfigLoaded"
  /\ loadFromDirectory(args.files) = null
  /\ pc' = "Failed"
  /\ out' = [error |-> "Analysis failed"]
  /\ UNCHANGED <<config, project, results, cursor, invoked, previous, args>>

\* analyzeProject is entered
StartAnalysis ==
  /\ pc = "ModelBuilt"
  /\ results' = freshResults
  /\ cursor' = [scope |-> 1, det |-> 1]
  /\ pc' = "ScanningMethods"
  /\ UNCHANGED <<config, project, invoked, previous, args, out>>

\* one turn of the loops over the methods: every detector on one method
ScanMethod ==
  /\ pc = "ScanningMethods"
  /\ cursor.scope <= countMethods(project)
  /\ LET site == <<"method", cursor.scope>>
         context == methodContexts(project.classes)[cursor.scope]
     IN  /\ results' = results \o runDetectors(1, context, site, config, args.throws)
         /\ invoked' = invoked \o invocationsAt(site, config)
  /\ cursor' = [cursor EXCEPT !.scope = @ + 1]
  /\ UNCHANGED <<pc, config, project, previous, args, out>>

MethodsDone ==
  /\ pc = "ScanningMethods"
  /\ cursor.scope > countMethods(project)
  /\ cursor' = [scope |-> 1, det |-> 1]
  /\ pc' = "MethodsScanned"
  /\ UNCHANGED <<config, project, results, invoked, previous, args, out>>

\* one turn of the loop over the classes
ScanClass ==
  /\ pc = "MethodsScanned"
  /\ cursor.scope <= Len(project.classes)
  /\ LET site == <<"class", cursor.scope>>
         context == classContext(project, cursor.scope)
     IN  /\ results' = results \o runDetectors(1, context, site, config, args.throws)
         /\ invoked' = invoked \o invocationsAt(site, config)
  /\ cursor' = [cursor EXCEPT !.scope = @ + 1]
  /\ UNCHANGED <<pc, config, project, previous, args, out>>

ClassesDone ==
  /\ pc = "MethodsScanned"
  /\ cursor.scope > Len(project.classes)
  /\ cursor' = [scope |-> 1, det |-> 1]
  /\ pc' = "ClassesScanned"
  /\ UNCHANGED <<config, project, results, invoked, previous, args, out>>

\* the loop over the detectors for the project
ScanProject ==
  /\ pc = "ClassesScanned"
  /\ LET site == <<"project", 1>>
         context == projectContext(project)
     IN  /\ results' = results \o runDetectors(1, context, site, config, args.throws)
         /\ invoked' = invoked \o invocationsAt(site, config)
  /\ pc' = "ProjectScanned"
  /\ UNCHANGED <<config, project, cursor, previous, args, out>>

\* return results; metadata; return AnalysisResult.from(...)
Assemble ==
  /\ pc = "ProjectScanned"
  /\ out' = AnalysisResult(project, results, config,
                           [totalFiles |-> Len(project.classes),
                            totalClasses |-> Len(project.classes),
                            totalMethods |-> countMethods(project)])
  /\ pc' = "Done"
  /\ UNCHANGED <<config, project, results, cursor, invoked, previous, args>>

\* the analysis is run once more over the same model and configuration
ExecuteAgain ==
  /\ pc = "Done"
  /\ previous = null
  /\ previous' = [results |-> out.results]
  /\ invoked' = <<>>
  /\ cursor' = [scope |-> 0, det |-> 0]
  /\ pc' = "ModelBuilt"
  /\ UNCHANGED <<config, project, results, args, out>>

\* the analyze command, after execute has returned: saveResult writes the
\* report in the requested format
SaveReport ==
  /\ pc = "Done"
  /\ saveResultAccepts(args.format)
  /\ pc' = "Reported"
  /\ UNCHANGED <<config, project, results, cursor, invoked, previous, args, out>>

\* saveResult throws "Unsupported format"; the command prints
\* "Analysis failed" and exits with status 1
SaveReportFails ==
  /\ pc = "Done"
  /\ ~saveResultAccepts(args.format)
  /\ pc' = "Failed"
  /\ out' = [error |-> "Analysis failed"]
  /\ UNCHANGED <<config, project, results, cursor, invoked, previous, args>>

Next ==
  \/ LoadConfig
  \/ LoadConfigFails
  \/ LoadProject
  \/ LoadProjectFails
  \/ StartAnalysis
  \/ ScanMethod
  \/ MethodsDone
  \/ ScanClass
  \/ ClassesDone
  \/ ScanProject
  \/ Assemble
  \/ ExecuteAgain
  \/ SaveReport
  \/ SaveReportFails

Spec == Init /\ [][Next]_vars

\* ---------------------------------------------------- properties of a run

\* the scopes of a run, in the order they are scanned
scopesOf(proj) ==
  LET contexts == methodContexts(proj.classes)
  IN  [i \in 1..Len(contexts) |->
         [site |-> <<"method", i>>, context |-> contexts[i]]]
      \o [i \in 1..Len(proj.classes) |->
            [site |-> <<"class", i>>, context |-> classContext(proj, i)]]
      \o <<[site |-> <<"project", 1>>, context |-> projectContext(proj)]>>

\* The result list of a run in which the pairs in silent return no result:
\* the results of all other (scope, detector) pairs, scope by scope and
\* detector by detector.
resultsWithout(proj, cfg, silent) ==
  LET scopes == scopesOf(proj)
      n == Len(detectors)
      outcomes ==
        [k \in 1..(Len(scopes) * n) |->
           LET scope == scopes[((k - 1) \div n) + 1]
               name == detectors[((k - 1) % n) + 1]
           IN  IF \/ ~isDetectorEnabled(cfg, name)
                  \/ <<name, scope.site>> \in silent
               THEN null
               ELSE detect(name, scope.context, getDetectorThresholds(cfg, name))]
  IN  SelectSeq(outcomes, LAMBDA r : r # null)

\* C1: when one detector invocation throws, the run still completes and its
\* result list is the one of a run in which that invocation returned no
\* result: nothing from the failing pair, every other pair's result present
\* and unchanged.
C1_ThrowContributesNothing ==
  pc = "Done" => /\ results = resultsWithout(project, config, args.throws)
                 /\ out.results = results

\* LongMethod throws on the first method; the detectors after it still report
C1_Witness ==
  /\ pc = "Done"
  /\ args.throws = {<<"LongMethod", <<"method", 1>>>>}
  /\ isDetectorEnabled(config, "LongMethod")
  /\ Len(results) > 0
  /\ results[1].smellName = "LongParameterList"

countOf(name) == Cardinality({i \in 1..Len(results) : results[i].smellName = name})

\* C2: a detector whose rule is defined over the whole project is evaluated
\* only in the project scan, so a run in which nothing throws holds exactly
\* one result of it, whatever the number of classes.
C2_ProjectDetectorsReportOnce ==
  (pc = "Done" /\ args.throws = {}) =>
    \A name \in ProjectDetectors :
      isDetectorEnabled(config, name) => countOf(name) = 1

scopeRank(result) ==
  IF "method" \in DOMAIN result.location THEN 1
  ELSE IF "class" \in DOMAIN result.location THEN 2
  ELSE 3

\* C3: no detector is invoked before the model is built, and in the result
\* list every method-located result comes before every class-located
\* result, which comes before every project-located result.
C3_ResultsOrderedByScope ==
  /\ invoked # <<>> => (config # null /\ project # null)
  /\ \A i, j \in 1..Len(results) :
       i < j => scopeRank(results[i]) <= scopeRank(results[j])

\* the thresholds mapping of the configuration document
documented(doc) ==
  IF "thresholds" \in DOMAIN doc THEN doc.thresholds ELSE EmptyMap

\* C6: a threshold given under thresholds in the configuration document is
\* the value passed to the detector and used by its comparison; the default
\* applies to the keys the document omits.
C6_DocumentedThresholdsPassed ==
  config # null =>
    /\ \A name \in DetectorNames :
         LET passed == getDetectorThresholds(config, name)
         IN  \A k \in DOMAIN passed :
               IF k \in DOMAIN documented(args.configDoc)
               THEN passed[k] = documented(args.configDoc)[k]
               ELSE k \notin DOMAIN args.configDoc => passed[k] = DefaultThresholds[k]
    /\ \A i \in 1..Len(results) :
         (/\ results[i].smellName = "LongMethod"
          /\ "maxLines" \in DOMAIN documented(args.configDoc))
         => results[i].details.thresholds.maxLines
              = documented(args.configDoc).maxLines

MaxParentMethods == 10

\* RefusedBequestDetector.analyzeInheritanceUsage
analyzeInheritanceUsage(parentFound, parentMethods, calls, overriddenEmpty) ==
  IF ~parentFound
  THEN [usageRatio |-> Rat(1, 1), usedMethods |-> 0, totalParentMethods |-> 0,
        overriddenEmpty |-> 0]
  ELSE LET usedMethods == Cardinality({pm \in 1..parentMethods : pm \in calls})
       IN  [usageRatio |-> IF parentMethods > 0 THEN Rat(usedMethods, parentMethods)
                           ELSE Rat(0, 1),
            usedMethods |-> usedMethods,
            totalParentMethods |-> parentMethods,
            overriddenEmpty |-> overriddenEmpty]

RefusedBequestThresholds ==
  {EmptyMap, [usageRatio |-> Rat(1, 5)], [usageRatio |-> Rat(1, 2)],
   [overriddenEmpty |-> 2]}

InitRefusedBequest ==
  /\ idleRun
  /\ \E parentMethods \in 0..MaxParentMethods :
       \E used \in 0..parentMethods :
         args \in [parentFound : BOOLEAN, parentMethods : {parentMethods},
                   calls : {1..used}, overriddenEmpty : {0, 1, 4, 6},
                   thresholds : RefusedBequestThresholds]
  /\ out = null

\* RefusedBequestDetector.detect on a class that has a parent
ApplyRefusedBequest ==
  /\ out = null
  /\ LET m == analyzeInheritanceUsage(args.parentFound, args.parentMethods,
                                      args.calls, args.overriddenEmpty)
         d == RefusedBequest_decide(m, args.thresholds)
     IN  out' = CodeSmellResult("RefusedBequest", d.detected, d.severity,
                                [class |-> "Sub", parent |-> "Base",
                                 file |-> "scripts/sub.gd"], m)
  /\ UNCHANGED <<args, runVars>>

NextRefusedBequest == ApplyRefusedBequest

SpecRefusedBequest == InitRefusedBequest /\ [][NextRefusedBequest]_vars

\* C11: a subclass using exactly 2 of the 10 methods of its parent (usage
\* ratio 0.2), under the default thresholds, is detected with severity High.
C11_RatioOneFifthIsHigh ==
  (/\ out # null
   /\ args.parentFound
   /\ args.parentMethods = 10
   /\ args.calls = 1..2
   /\ args.thresholds = EmptyMap)
  => (out.detected /\ out.severity = "High")

\* --------------------------------------------- specification: GlobalState
\* An autoload is given by what analyzeGlobalState reads off it: fields.size,
\* methods.size and getTotalLOC().

MaxAutoloads == 9

RECURSIVE SumFields(_)
SumFields(autoloads) ==
  IF autoloads = <<>> THEN 0
  ELSE Head(autoloads).fieldCount + SumFields(Tail(autoloads))

\* GlobalStateDetector.analyzeGlobalState
analyzeGlobalState(autoloads) ==
  [autoloadCount |-> Len(autoloads),
   totalGlobalVars |-> SumFields(autoloads),
   godAutoloads |->
     Cardinality({i \in 1..Len(autoloads) :
                    autoloads[i].totalLOC > 400 \/ autoloads[i].methodCount > 20})]

PlainAutoload == [fieldCount |-> 2, methodCount |-> 3, totalLOC |-> 100]

EdgeAutoload == [fieldCount |-> 0, methodCount |-> 20, totalLOC |-> 400]

WideAutoload == [fieldCount |-> 21, methodCount |-> 1, totalLOC |-> 10]

ManyMethodsAutoload == [fieldCount |-> 0, methodCount |-> 25, totalLOC |-> 100]

LongAutoload == [fieldCount |-> 0, methodCount |-> 1, totalLOC |-> 401]

GlobalStateThresholds ==
  {EmptyMap, [maxAutoloads |-> 1], [maxAutoloads |-> 20, maxGlobalVars |-> 100]}

InitGlobalState ==
  /\ idleRun
  /\ \E plain \in 0..MaxAutoloads, edge \in 0..1, wide \in 0..2,
        many \in 0..1, long \in 0..1 :
       args \in [autoloads : {Rep(PlainAutoload, plain) \o Rep(EdgeAutoload, edge)
                              \o Rep(WideAutoload, wide)
                              \o Rep(ManyMethodsAutoload, many)
                              \o Rep(LongAutoload, long)},
                 thresholds : GlobalStateThresholds]
  /\ out = null

\* GlobalStateDetector.detect on a project context
ApplyGlobalState ==
  /\ out = null
  /\ LET m == analyzeGlobalState(args.autoloads)
         d == GlobalState_decide(m, args.thresholds)
     IN  out' = CodeSmellResult("GlobalState", d.detected, d.severity,
                                [project |-> UnknownProject], m)
  /\ UNCHANGED <<args, runVars>>

NextGlobalState == ApplyGlobalState

SpecGlobalState == InitGlobalState /\ [][NextGlobalState]_vars

oversized(autoload) == autoload.methodCount > 20 \/ autoload.totalLOC > 400

\* C12: under the default thresholds six autoloads, none oversized and with
\* at most 20 fields in total, give detected with severity Medium; and an
\* autoload with more than 20 methods or more than 400 LOC gives detected
\* with severity Critical, whatever the number of autoloads.
C12_GlobalStateTiers ==
  out # null =>
    /\ (/\ args.thresholds = EmptyMap
        /\ Len(args.autoloads) = 6
        /\ \A i \in 1..6 : ~oversized(args.autoloads[i])
        /\ SumFields(args.autoloads) <= 20)
       => (out.detected /\ out.severity = "Medium")
    /\ (\E i \in 1..Len(args.autoloads) : oversized(args.autoloads[i]))
       => (out.detected /\ out.severity = "Critical")

\* ten autoloads, one of them with 25 methods: Critical, not High
C12_Witness ==
  /\ out # null
  /\ Len(args.autoloads) = 10
  /\ \E i \in 1..10 : args.autoloads[i].methodCount = 25
  /\ out.severity = "Critical"

\* ------------------------------------- specification: project construction
\* The Class objects 1..MaxObjects exist, each with its autoload flag; the
\* constructor is given some of them as classes and some as autoloads.

MaxObjects == 3

ObjectClass(oid, flag) ==
  Class(oid, "C", {}, <<>>, "null", {}, flag, "scripts/c.gd", EmptyMap)

\* the objects of the set S, in the order of their numbers
RECURSIVE objectsIn(_, _, _)
objectsIn(S, flags, from) ==
  IF from > MaxObjects THEN <<>>
  ELSE (IF from \in S THEN <<ObjectClass(from, flags[from])>> ELSE <<>>)
       \o objectsIn(S, flags, from + 1)

InitProject ==
  /\ idleRun
  /\ \E flags \in [1..MaxObjects -> BOOLEAN] :
       \E cs \in SUBSET (1..MaxObjects), as \in SUBSET (1..MaxObjects) :
         args = [classes |-> objectsIn(cs, flags, 1),
                 autoloads |-> objectsIn(as, flags, 1)]
  /\ out = null

\* new GDScriptProject(classes, scenes, autoloads)
ConstructProject ==
  /\ out = null
  /\ LET proj == newGDScriptProject(args.classes, args.autoloads)
     IN  out' = IF proj = null
                THEN [error |-> "Autoload class must be in classes and have autoload=true"]
                ELSE proj
  /\ UNCHANGED <<args, runVars>>

NextProject == ConstructProject

SpecProject == InitProject /\ [][NextProject]_vars

oidsOf(classes) == {classes[i].oid : i \in 1..Len(classes)}

\* C15: constructing a project fails, and gives no project, when some
\* autoload is not among the classes or does not carry the autoload flag,
\* and succeeds when every autoload is among the classes and carries it.
C15_ConstructionFailsIffInvariantBroken ==
  out # null =>
    LET broken == \E i \in 1..Len(args.autoloads) :
                    \/ args.autoloads[i].oid \notin oidsOf(args.classes)
                    \/ ~args.autoloads[i].autoload
    IN  IF broken THEN DOMAIN out = {"error"}
        ELSE /\ "error" \notin DOMAIN out
             /\ out.classes = args.classes
             /\ out.autoloads = args.autoloads

\* a flagged autoload that is not among the classes: construction fails
C15_Witness ==
  /\ out # null
  /\ Len(args.autoloads) = 1
  /\ args.autoloads[1].autoload
  /\ args.autoloads[1].oid \notin oidsOf(args.classes)
  /\ DOMAIN out = {"error"}

\* C16: if model construction fails (autoload invariant violated, or a
\* required identifier missing), the run ends in failure, no detector is
\* invoked at any scope and no result set is returned.
C16_ConstructionFailureAbortsRun ==
  (\/ loadFromDirectory(args.files) = null
   \/ \E i \in 1..Len(args.files) : ~validIdentifier(args.files[i].baseName))
  => /\ pc \in {"Idle", "ConfigLoaded", "Failed"}
     /\ invoked = <<>>
     /\ "results" \notin DOMAIN out

\* C17: a configuration whose enabledDetectors holds a name that is not one
\* of the twenty detector names fails at load time; no analysis starts
\* with such a configuration.
C17_UnknownDetectorRejected ==
  (/\ "enabledDetectors" \in DOMAIN args.configDoc
   /\ \E i \in 1..Len(args.configDoc.enabledDetectors) :
        args.configDoc.enabledDetectors[i] \notin DetectorNames)
  => /\ pc \in {"Idle", "Failed"}
     /\ config = null
     /\ invoked = <<>>

\* C18: a request with an unsupported output format fails before the
\* analysis starts: before the model is built and before any detector is
\* invoked.
C18_UnsupportedFormatFailsFirst ==
  ~saveResultAccepts(args.format)
  => /\ project = null
     /\ invoked = <<>>
     /\ pc \notin {"ModelBuilt", "ScanningMethods", "MethodsScanned",
                   "ClassesScanned", "ProjectScanned", "Done"}

\* the scope a context of the orchestrator stands for
scopeOf(site) == site[1]

\* the scopes a detector says it detects on ("Only detect on methods",
\* "Only detect on classes", "Only detect on project level", and the two
\* kinds that take either of two)
supportedScopes(name) ==
  CASE name \in MethodDetectors \cup {"FeatureEnvy"} -> {"method"}
    [] name \in ClassDetectors \cup {"RefusedBequest"} -> {"class"}
    [] name \in MethodOrClassDetectors -> {"method", "class"}
    [] name \in ClassOrProjectDetectors -> {"class", "project"}
    [] name \in ProjectDetectors -> {"project"}

\* C19: a detector returns no result exactly when the context is of a scope
\* it does not support; for every context of a supported scope it returns a
\* result whose detected flag is true or false.
C19_NoResultIffScopeUnsupported ==
  project # null =>
    \A k \in 1..Len(scopesOf(project)) : \A name \in DetectorNames :
      LET scope == scopesOf(project)[k]
          result == detect(name, scope.context,
                           getDetectorThresholds(config, name))
      IN  IF scopeOf(scope.site) \in supportedScopes(name)
          THEN result # null /\ result.detected \in BOOLEAN
          ELSE result = null

\* name is one of the elements of the sequence
listed(name, names) == \E i \in 1..Len(names) : names[i] = name

\* how often the detector was invoked at the site in this run
invocationCount(name, site) ==
  Cardinality({i \in 1..Len(invoked) :
                 invoked[i] = [detector |-> name, site |-> site]})

\* C20: a detector whose name is not in enabledDetectors is never invoked
\* and no result carries its smell name; when the run is done, every enabled
\* detector has been invoked exactly once for every method, every class and
\* the project, and nothing else has been invoked.
C20_EnabledDetectorsInvokedOnce ==
  /\ \A i \in 1..Len(invoked) :
       listed(invoked[i].detector, config.enabledDetectors)
  /\ \A i \in 1..Len(results) :
       listed(results[i].smellName, config.enabledDetectors)
  /\ pc \in {"Done", "Reported"} =>
       LET scopes == scopesOf(project)
           enabled == {name \in DetectorNames :
                         listed(name, config.enabledDetectors)}
       IN  /\ \A name \in enabled : \A k \in 1..Len(scopes) :
                invocationCount(name, scopes[k].site) = 1
           /\ Len(invoked) = Cardinality(enabled) * Len(scopes)

\* a finished run over two classes with methods in which seventeen of the
\* twenty detectors are disabled
C20_Witness ==
  /\ pc = "Done"
  /\ config.enabledDetectors = EnabledDoc.enabledDetectors
  /\ Len(project.classes) = 2
  /\ Len(methodContexts(project.classes)) >= 2
  /\ Len(invoked) = 3 * Len(scopesOf(project))
  /\ results # <<>>

\* ------------------------------- specification: invocations in any order
\* The detect calls of one analysis, taken in every order: each step
\* evaluates one (scope, detector) pair that has not been evaluated yet, on
\* the model and configuration as they are at that moment.  previous keeps
\* the model and the configuration the analysis started with, invoked the
\* pairs evaluated, results what each pair returned.

\* a model in which every method has lost its lines
withoutLines(proj) ==
  [proj EXCEPT !.classes =
     [i \in DOMAIN proj.classes |->
        [proj.classes[i] EXCEPT !.methods =
           [j \in DOMAIN proj.classes[i].methods |->
              [proj.classes[i].methods[j] EXCEPT !.lines = <<>>]]]]]

\* a variant: LongMethod consumes the lines it has counted
modelAfterDetect_consuming(name, context, proj) ==
  IF name = "LongMethod" THEN withoutLines(proj) ELSE proj

\* The model after detector.detect(context, thresholds) has returned: no
\* detector assigns to the context, to an entity or to a collection of the
\* model (the entities are frozen, the detectors build their own arrays,
\* sets and maps), so it is the model the call was given.
modelAfterDetect(name, context, proj) == proj

InterleavedFiles ==
  {<<PlayerFile>>, <<EnemyFile>>, <<EnemyFile, SettingsFile>>,
   <<SettingsFile, EnemyFile>>}

InterleavedDocs ==
  {EnabledDoc,
   [enabledDetectors |-> <<"LargeClass", "DuplicateCode", "RefusedBequest">>]}

\* the (scope, detector) pairs of the analysis
pairsOf(proj, cfg) ==
  {<<k, name>> : k \in 1..Len(scopesOf(proj)),
                 name \in {n \in DetectorNames : isDetectorEnabled(cfg, n)}}

InitInterleaved ==
  /\ pc = "Interleaved"
  /\ args \in [configDoc : InterleavedDocs, files : InterleavedFiles]
  /\ config = AnalysisConfig(args.configDoc)
  /\ project = loadFromDirectory(args.files)
  /\ previous = [project |-> project, config |-> config]
  /\ results = {}
  /\ invoked = {}
  /\ cursor = [scope |-> 0, det |-> 0]
  /\ out = null

\* one detect call, on a pair not yet evaluated
Invoke ==
  /\ pc = "Interleaved"
  /\ \E pair \in pairsOf(project, config) \ invoked :
       LET scope == scopesOf(project)[pair[1]]
           name == pair[2]
           result == detect(name, scope.context,
                            getDetectorThresholds(config, name))
       IN  /\ results' = results \cup {[pair |-> pair, result |-> result]}
           /\ invoked' = invoked \cup {pair}
           /\ project' = modelAfterDetect(name, scope.context, project)
  /\ UNCHANGED <<pc, config, cursor, previous, args, out>>

\* every pair has been evaluated
Join ==
  /\ pc = "Interleaved"
  /\ invoked = pairsOf(project, config)
  /\ pc' = "Joined"
  /\ out' = [results |-> {r.result : r \in results} \ {null}]
  /\ UNCHANGED <<config, project, results, cursor, invoked, previous, args>>

NextInterleaved ==
  \/ Invoke
  \/ Join

SpecInterleaved == InitInterleaved /\ [][NextInterleaved]_vars

MaxCommentLines == 12

MaxCodeLines == 12

LineComment == <<"#", " ", "c">>

LineBlank == <<" ">>

CommentsThresholds == {EmptyMap, [maxCommentDensity |-> Rat(3, 4)]}

InitComments ==
  /\ idleRun
  /\ args \in [commentLines : 0..MaxCommentLines, codeLines : 0..MaxCodeLines,
                blankLines : 0..1, scope : {"method", "class"},
                thresholds : CommentsThresholds]
  /\ out = null

ApplyComments ==
  /\ out = null
  /\ LET lines == Rep(CodeLine(LineBlank), args.blankLines)
                  \o Rep(CodeLine(LineComment), args.commentLines)
                  \o Rep(CodeLine(LineA), args.codeLines)
         method == Method("m1", <<>>, lines, EmptyMap)
         class == PlainClass(1, "A", <<method>>)
         context == IF args.scope = "method"
                    THEN [method |-> method, ownerClass |-> class, filePath |-> "A"]
                    ELSE [class |-> class, filePath |-> "A"]
     IN  out' = detect("Comments", context, args.thresholds)
  /\ UNCHANGED <<args, runVars>>

NextComments == ApplyComments

SpecComments == InitComments /\ [][NextComments]_vars

\* C22: Comments reports detected = true exactly when the comment density
\* (comment lines / (comment lines + code lines), blank lines ignored) is
\* above maxCommentDensity and the scope has more than 10 non-blank lines
\* (comment lines plus code lines).
C22_CommentsDetectedIff ==
  out # null =>
    LET nonBlankLines == args.commentLines + args.codeLines
        maxCommentDensity ==
          IF "maxCommentDensity" \in DOMAIN args.thresholds
          THEN args.thresholds.maxCommentDensity ELSE Rat(1, 2)
    IN  out.detected <=>
          /\ nonBlankLines > 10
          /\ RatGt(Rat(args.commentLines, nonBlankLines), maxCommentDensity)

\* ------------------------------------------- specification: SwitchStatements
\* SwitchStatementsDetector.detect on a method written as a sequence of
\* multi-branch constructs: match statements over x or y with so many
\* branches, and if chains with so many elif branches.

MaxConstructs == 3

LineMatchX == <<"m", "a", "t", "c", "h", " ", "x", ":">>

LineMatchY == <<"m", "a", "t", "c", "h", " ", "y", ":">>

LineCase == <<"1", ":">>

LineIfA == <<"i", "f", " ", "a", ":">>

LineElifB == <<"e", "l", "i", "f", " ", "b", ":">>

Constructs ==
  [kind : {"match"}, variable : {"x", "y"}, branches : 1..3]
  \cup [kind : {"if"}, variable : {"a"}, branches : 3..4]

\* the source lines of a construct, one line per branch
linesOfConstruct(c) ==
  IF c.kind = "match"
  THEN <<IF c.variable = "x" THEN LineMatchX ELSE LineMatchY>>
       \o Rep(LineCase, c.branches)
  ELSE <<LineIfA>> \o Rep(LineElifB, c.branches - 1)

RECURSIVE linesOfConstructs(_)
linesOfConstructs(cs) ==
  IF cs = <<>> THEN <<>>
  ELSE linesOfConstruct(Head(cs)) \o linesOfConstructs(Tail(cs))

SwitchThresholds == {EmptyMap, [maxCases |-> 2], [maxSwitches |-> 1]}

InitSwitch ==
  /\ idleRun
  /\ args \in [constructs : SeqsUpTo(Constructs, MaxConstructs),
                thresholds : SwitchThresholds]
  /\ out = null

ApplySwitch ==
  /\ out = null
  /\ LET method == ParsedMethod("m1", linesOfConstructs(args.constructs))
     IN  out' = detect("SwitchStatements",
                       [method |-> method,
                        ownerClass |-> PlainClass(1, "A", <<method>>),
                        filePath |-> "A"],
                       args.thresholds)
  /\ UNCHANGED <<args, runVars>>

NextSwitch == ApplySwitch

SpecSwitch == InitSwitch /\ [][NextSwitch]_vars

\* C23: SwitchStatements reports detected = true for a method whenever it
\* has more than maxSwitches multi-branch constructs, or one of them has
\* more than maxCases branches, or the same branch variable is matched by
\* more than one construct, and detected = false when none of the three
\* holds.
C23_SwitchDetectedIff ==
  out # null =>
    LET cs == args.constructs
        maxSwitches == IF "maxSwitches" \in DOMAIN args.thresholds
                       THEN args.thresholds.maxSwitches ELSE 2
        maxCases == IF "maxCases" \in DOMAIN args.thresholds
                    THEN args.thresholds.maxCases ELSE 5
    IN  out.detected <=>
          \/ Len(cs) > maxSwitches
          \/ \E i \in 1..Len(cs) : cs[i].branches > maxCases
          \/ \E i, j \in 1..Len(cs) :
               /\ i # j
               /\ cs[i].kind = "match"
               /\ cs[j].kind = "match"
               /\ cs[i].variable = cs[j].variable

\* C24: a built-in default is substituted only when the threshold key is
\* absent from the supplied mapping; a supplied value, 0 included, is used
\* unchanged in the detection comparison (LongMethod with maxLines = 0 is
\* detected for every method with at least one line).
C24_SuppliedThresholdUsed ==
  out # null =>
    LET supplied == args.thresholds
    IN  /\ out.details.thresholds.maxLines
             = (IF "maxLines" \in DOMAIN supplied THEN supplied.maxLines ELSE 50)
        /\ ("maxLines" \in DOMAIN supplied
               /\ Len(args.method.lines) > supplied.maxLines)
            => out.detected

\* ---------------------------------------------- specification: MessageChains
\* MessageChainsDetector.detect on a method, and on the class holding it,
\* whose lines each hold one chain: a call chain a.b().b()... or a node path
\* $n/n/n..., of so many links.

MaxLinks == 5

MaxChains == 2

Chains == [kind : {"call", "path"}, links : 1..MaxLinks]

RECURSIVE Concat(_)
Concat(ss) == IF ss = <<>> THEN <<>> ELSE Head(ss) \o Concat(Tail(ss))

\* the source line holding the chain
lineOfChain(c) ==
  IF c.kind = "call"
  THEN <<"a">> \o Concat(Rep(<<".", "b", "(", ")">>, c.links))
  ELSE <<"$", "n">> \o Concat(Rep(<<"/", "n">>, c.links - 1))

ChainThresholds == {EmptyMap, [maxChainLength |-> 2], [maxChainLength |-> 4]}

InitChains ==
  /\ idleRun
  /\ args \in [chains : SeqsUpTo(Chains, MaxChains), scope : {"method", "class"},
                thresholds : ChainThresholds]
  /\ out = null

ApplyChains ==
  /\ out = null
  /\ LET method == ParsedMethod("m1", [i \in 1..Len(args.chains) |->
                                         lineOfChain(args.chains[i])])
         class == PlainClass(1, "A", <<method>>)
         context == IF args.scope = "method"
                    THEN [method |-> method, ownerClass |-> class, filePath |-> "A"]
                    ELSE [class |-> class, filePath |-> "A"]
     IN  out' = detect("MessageChains", context, args.thresholds)
  /\ UNCHANGED <<args, runVars>>

NextChains == ApplyChains

SpecChains == InitChains /\ [][NextChains]_vars

\* C25: MessageChains reports detected = true exactly when some call chain
\* or node-path chain in the scope has more than maxChainLength links
\* (default 3); with maxChainLength raised to n, a scope whose longest chain
\* has at most n links yields detected = false.
C25_ChainsDetectedIff ==
  out # null =>
    LET maxChainLength == IF "maxChainLength" \in DOMAIN args.thresholds
                          THEN args.thresholds.maxChainLength ELSE 3
    IN  out.detected <=>
          \E i \in 1..Len(args.chains) : args.chains[i].links > maxChainLength

\* the distinct trimmed lines of a block
trimmedSet(lines) == {trim(lines[i]) : i \in 1..Len(lines)}

\* C26: for all line sequences a and b, block similarity is the number of
\* distinct trimmed lines occurring in both, divided by max(length a,
\* length b); it is 1 when both are empty, 0 when exactly one is empty, and
\* always lies in [0, 1].
C26_SimilarityValue ==
  out # null =>
    LET a == args.a
        b == args.b
        longer == IF Len(a) >= Len(b) THEN Len(a) ELSE Len(b)
    IN  /\ (a = <<>> /\ b = <<>>) => RatEq(out.ab, Rat(1, 1))
        /\ ((a = <<>>) # (b = <<>>)) => RatEq(out.ab, Rat(0, 1))
        /\ (a # <<>> /\ b # <<>>) =>
             RatEq(out.ab,
                   Rat(Cardinality(trimmedSet(a) \cap trimmedSet(b)), longer))
        /\ out.ab.den > 0
        /\ RatGeq(out.ab, Rat(0, 1))
        /\ RatGeq(Rat(1, 1), out.ab)

\* a block of three lines, two of them equal once trimmed, against a block
\* of two lines sharing exactly that line: similarity 1/3
C26_Witness ==
  /\ out # null
  /\ args.a = <<LineA, LineAIndented, LineB>>
  /\ args.b = <<LineC, LineA>>
  /\ RatEq(out.ab, Rat(1, 3))

\* the text of the line holds one of the seven decision keywords
holdsDecisionKeyword(text) ==
  \/ includes(text, <<"i", "f">>)
  \/ includes(text, <<"e", "l", "i", "f">>)
  \/ includes(text, <<"w", "h", "i", "l", "e">>)
  \/ includes(text, <<"f", "o", "r">>)
  \/ includes(text, <<"m", "a", "t", "c", "h">>)
  \/ includes(text, <<"a", "n", "d">>)
  \/ includes(text, <<"o", "r">>)

RECURSIVE decisionLines(_)
decisionLines(lines) ==
  IF lines = <<>> THEN 0
  ELSE (IF holdsDecisionKeyword(Head(lines).content) THEN 1 ELSE 0)
       + decisionLines(Tail(lines))

\* C27: a method's cyclomatic complexity is 1 plus the number of its lines
\* that contain at least one decision keyword (if, elif, while, for, match,
\* and, or), each line counted once however many keywords it holds; hence
\* 1 <= complexity <= 1 + line count, and a method with no lines has
\* complexity 1.
C27_ComplexityCountsLinesOnce ==
  out # null =>
    LET complexity == out.details.cyclomaticComplexity
        lines == args.method.lines
    IN  /\ complexity = 1 + decisionLines(lines)
        /\ complexity >= 1
        /\ complexity <= 1 + Len(lines)
        /\ lines = <<>> => complexity = 1

\* three lines, two of them decision lines, one of which holds two keywords
\* (if, and for with the or inside it): complexity 3
C27_Witness ==
  /\ out # null
  /\ Len(args.method.lines) = 3
  /\ [i \in 1..3 |-> args.method.lines[i].content] = <<LineIf, LineX, LineFor>>
  /\ out.details.cyclomaticComplexity = 3

\* C28: every project the repository assembles from a directory satisfies
\* the autoload invariant (each class placed in the autoload set is in the
\* class set and carries the autoload flag), so loading a directory, with
\* script files at its root or not, never fails model construction.
C28_LoadedProjectSatisfiesInvariant ==
  /\ project # null =>
       \A i \in 1..Len(project.autoloads) :
         /\ project.autoloads[i].oid \in oidsOf(project.classes)
         /\ project.autoloads[i].autoload
  /\ ~(pc = "Failed" /\ config # null /\ project = null)

\* ------------------------------------- specification: saving a configuration
\* A configuration is constructed from a document, saved with saveToFile and
\* loaded back with loadFromFile.  out is the document in the file, previous
\* the configuration loaded back.

SomeThresholds ==
  {a @@ b @@ c :
     a \in {EmptyMap, [maxLines |-> 1], [maxLines |-> 60]},
     b \in {EmptyMap, [maxFields |-> 3]},
     c \in {EmptyMap, [minSimilarity |-> Rat(4, 5)]}}

SomeEnabled ==
  {EmptyMap, [enabledDetectors |-> <<"LongMethod">>],
   [enabledDetectors |-> <<"Comments", "LargeClass">>]}

SomeOutput ==
  {EmptyMap, [output |-> [format |-> "html"]],
   [output |-> [format |-> "txt", directory |-> "out",
                includeDetails |-> "false", groupBySeverity |-> "true"]]}

InitSaving ==
  /\ pc = "Idle"
  /\ \E t \in SomeThresholds, e \in SomeEnabled, o \in SomeOutput :
       args = [configDoc |-> t @@ e @@ o]
  /\ config = null
  /\ project = null
  /\ results = <<>>
  /\ cursor = [scope |-> 0, det |-> 0]
  /\ invoked = <<>>
  /\ previous = null
  /\ out = null

\* new AnalysisConfig(document)
ConstructConfig ==
  /\ pc = "Idle"
  /\ config' = AnalysisConfig(args.configDoc)
  /\ pc' = "Constructed"
  /\ UNCHANGED <<project, results, cursor, invoked, previous, args, out>>

\* saveToFile(config, path)
SaveConfig ==
  /\ pc = "Constructed"
  /\ out' = savedDocument(config)
  /\ pc' = "Saved"
  /\ UNCHANGED <<config, project, results, cursor, invoked, previous, args>>

\* loadFromFile(path): AnalysisConfig.fromYAML of the document in the file
LoadSavedConfig ==
  /\ pc = "Saved"
  /\ previous' = AnalysisConfig(out)
  /\ pc' = "Loaded"
  /\ UNCHANGED <<config, project, results, cursor, invoked, args, out>>

NextSaving ==
  \/ ConstructConfig
  \/ SaveConfig
  \/ LoadSavedConfig

SpecSaving == InitSaving /\ [][NextSaving]_vars

\* C29: saving a configuration and loading the file back gives a
\* configuration with the same thresholds, the same enabledDetectors and the
\* same output settings, also for non-default thresholds.
C29_SaveLoadRoundTrip ==
  pc = "Loaded" =>
    /\ previous.thresholds = config.thresholds
    /\ previous.enabledDetectors = config.enabledDetectors
    /\ previous.output = config.output

\* ------------------------------------------------ AnalysisResult: summary

\* a variant that takes every result for a detected smell
getDetectedSmells_all(res) == res

\* AnalysisResult.getDetectedSmells
getDetectedSmells(res) == SelectSeq(res, LAMBDA result : result.detected)

\* AnalysisResult.getSmellsBySeverity
getSmellsBySeverity(res, severity) ==
  SelectSeq(res, LAMBDA result : result.severity = severity)

\* AnalysisResult.getSmellsByType: the results grouped under their smell name
getSmellsByType(res) ==
  [type \in {res[i].smellName : i \in 1..Len(res)} |->
     SelectSeq(res, LAMBDA result : result.smellName = type)]

\* AnalysisResult.getSummary: the three counts
getSummary(res) ==
  [totalSmells |-> Len(getDetectedSmells(res)),
   bySeverity |-> [Critical |-> Len(getSmellsBySeverity(res, "Critical")),
                   High |-> Len(getSmellsBySeverity(res, "High")),
                   Medium |-> Len(getSmellsBySeverity(res, "Medium")),
                   Low |-> Len(getSmellsBySeverity(res, "Low"))],
   byType |-> [type \in DOMAIN getSmellsByType(res) |->
                 Len(SelectSeq(getSmellsByType(res)[type],
                               LAMBDA r : r.detected))]]

\* the sum of the values of a function with a finite domain
RECURSIVE SumValues(_, _)
SumValues(f, S) ==
  IF S = {} THEN 0
  ELSE LET x == CHOOSE y \in S : TRUE
       IN  f[x] + SumValues(f, S \ {x})

\* C30: in the summary of the result list of a run, totalSmells (the number
\* of results with detected = true) equals the sum of the four bySeverity
\* counts and equals the sum of the byType counts.
C30_SummaryCountsAgree ==
  (pc \in {"Done", "Reported"}) =>
    LET summary == getSummary(out.results)
    IN  /\ summary.totalSmells
             = summary.bySeverity.Critical + summary.bySeverity.High
               + summary.bySeverity.Medium + summary.bySeverity.Low
        /\ summary.totalSmells = SumValues(summary.byType, DOMAIN summary.byType)
        /\ summary.totalSmells
             = Cardinality({i \in 1..Len(out.results) : out.results[i].detected})

\* the summary of a finished run with smells of two severities and of two
\* types, and with results that are not detected
C30_Witness ==
  /\ pc = "Done"
  /\ LET summary == getSummary(out.results)
     IN  /\ summary.totalSmells >= 2
         /\ summary.totalSmells < Len(out.results)
         /\ Cardinality({sev \in DOMAIN summary.bySeverity :
                           summary.bySeverity[sev] > 0}) >= 2
         /\ Cardinality({type \in DOMAIN summary.byType :
                           summary.byType[type] > 0}) >= 2

====
